---- MODULE Spec2Model ----
(***************************************************************************)
(* Model of the ranomengine extraction and reconciliation pipeline:        *)
(* value normalisation, declarative selector resolution, the AI fallback   *)
(* controller, the URL/VIN goal builder and the field comparator.          *)
(*                                                                         *)
(* Texts are sequences of one-character strings.  Python values are        *)
(* tagged records [t, v]: "none", "str", "int", "list", "dict", and "raise"*)
(* for an exception leaving the callee.  Floating point scores are kept as *)
(* exact fractions [n, d] (d > 0); the comparisons the code makes          *)
(* are made by cross multiplication.                                       *)
(***************************************************************************)
EXTENDS Integers, Sequences, FiniteSets, TLC

VARIABLES
    loaded_mappings,  \* GoalMapper.loaded_mappings: site id -> mapping
    op,               \* the entry point that ran last
    pc,               \* its position: "idle", "ai_call", ..., "done"
    mp_req,           \* parse_with_mapping: the request
    mapping_result,   \* the MappingResult of the resolution pass
    ai_calls,         \* calls of the AI backend made for the request
    ai_result,        \* the AIExtractionResult, None before the call
    existing_data,    \* the data handed to the AI extractor with the page
    mp_resp,          \* the response, None while the request runs
    trace,            \* process_input: the SearchTrace
    result_index,     \* position of the loop over the search results
    generic_result,   \* the ParseResult of the generic parser
    mapping_config,   \* the mapping configuration given to the studio call
    html_content,     \* the document given to the studio call
    preview_result,   \* what StudioMapper.preview_mapping returned
    comparison_result,\* what ResultComparator.compare_results returned
    norm_pc, norm_impl, norm_field, norm_in, norm_once, norm_twice,
    cmp_pc, value1, value2, similarity,
    suggest_pc,       \* position of the selector suggestion run
    soup,             \* the elements of the page given to the suggester
    ai_analysis,      \* what _get_ai_analysis returned for the page
    suggestions,      \* the list _suggest_field_selectors returned
    calls,            \* shared mapper: the arguments of each caller's extract_from_html
    frames,           \* shared mapper: the locals of each caller's extract_from_html
    mapper_info,      \* shared mapper: what the last registry query returned
    vin_pc,           \* position of the VIN validation run
    vin,              \* the argument of VINValidator.is_valid_vin
    is_valid,         \* what is_valid_vin returned
    price_pc,         \* position of the heuristic price extraction
    page_text,        \* soup.get_text() of the page, as its price occurrences
    price,            \* what _extract_price returned
    test_pc,          \* position of the schema test run
    test_site,        \* test_schema: the site_id of the request
    test_urls,        \* test_schema: request.test_urls
    fetches,          \* the fetch_page calls made by the run, with what each returned
    test_results,     \* test_schema: the results list
    test_response,    \* what test_schema returned or raised
    attempts,         \* process_input: the candidates handed to _fetch_and_parse, in call order
    submits,          \* process_and_create_case: the calls of create_case made
    case_creation     \* process_and_create_case: result['case_creation']

norm_vars == <<norm_pc, norm_impl, norm_field, norm_in, norm_once, norm_twice>>
cmp_vars == <<cmp_pc, value1, value2, similarity>>
suggest_vars == <<suggest_pc, soup, ai_analysis, suggestions>>
shared_vars == <<calls, frames, mapper_info>>
mp_vars == <<mp_req, mapping_result, mp_resp>>
ai_vars == <<ai_calls, ai_result, existing_data>>
gb_vars == <<trace, result_index, generic_result>>
studio_vars == <<mapping_config, html_content, preview_result, comparison_result>>
vin_vars == <<vin_pc, vin, is_valid>>
price_vars == <<price_pc, page_text, price>>
test_vars == <<test_pc, test_site, test_urls, fetches, test_results, test_response>>
case_vars == <<attempts, submits, case_creation>>
more_vars == <<vin_vars, price_vars, test_vars, case_vars>>
side_vars == <<norm_vars, cmp_vars, suggest_vars, shared_vars, vin_vars, price_vars, test_vars>>
aux_vars == <<norm_vars, cmp_vars, suggest_vars, shared_vars, more_vars>>
vars == <<loaded_mappings, op, pc, mp_vars, ai_vars, gb_vars, studio_vars, aux_vars>>

(***************************************************************************)
(* Python values                                                           *)
(***************************************************************************)
None == [t |-> "none", v |-> <<>>]
PyStr(s) == [t |-> "str", v |-> s]
PyInt(n) == [t |-> "int", v |-> n]
PyBool(b) == [t |-> "bool", v |-> b]
PyRaise(e) == [t |-> "raise", v |-> e]

\* Python truthiness of a value: None, "", 0, [] and {} are falsy.
Truthy(x) ==
    CASE x.t = "none" -> FALSE
      [] x.t = "str" -> x.v # <<>>
      [] x.t = "int" -> x.v # 0
      [] x.t = "list" -> x.v # <<>>
      [] x.t = "dict" -> DOMAIN x.v # {}
      [] x.t = "bool" -> x.v
      [] OTHER -> TRUE

(***************************************************************************)
(* Text primitives (str and re)                                            *)
(***************************************************************************)
Digits == {"0", "1", "2", "3", "4", "5", "6", "7", "8", "9"}
Whitespace == {" ", "\n", "\t"}

DigitVal(c) ==
    CASE c = "0" -> 0 [] c = "1" -> 1 [] c = "2" -> 2 [] c = "3" -> 3
      [] c = "4" -> 4 [] c = "5" -> 5 [] c = "6" -> 6 [] c = "7" -> 7
      [] c = "8" -> 8 [] c = "9" -> 9

\* int(s) for a non-empty run of decimal digits
RECURSIVE ParseInt(_)
ParseInt(s) ==
    IF s = <<>> THEN 0
    ELSE 10 * ParseInt(SubSeq(s, 1, Len(s) - 1)) + DigitVal(s[Len(s)])

UpperLetters ==
    <<"A", "B", "C", "D", "E", "F", "G", "H", "I", "J", "K", "L", "M",
      "N", "O", "P", "Q", "R", "S", "T", "U", "V", "W", "X", "Y", "Z">>
LowerLetters ==
    <<"a", "b", "c", "d", "e", "f", "g", "h", "i", "j", "k", "l", "m",
      "n", "o", "p", "q", "r", "s", "t", "u", "v", "w", "x", "y", "z">>

\* str.lower() of one character
LowerChar(c) ==
    IF \E i \in 1..Len(UpperLetters) : UpperLetters[i] = c
    THEN LowerLetters[CHOOSE i \in 1..Len(UpperLetters) : UpperLetters[i] = c]
    ELSE c

Lower(s) == [i \in 1..Len(s) |-> LowerChar(s[i])]

\* s.replace(c, '') for a single character c
RECURSIVE RemoveChar(_, _)
RemoveChar(s, c) ==
    IF s = <<>> THEN <<>>
    ELSE IF Head(s) = c THEN RemoveChar(Tail(s), c)
    ELSE <<Head(s)>> \o RemoveChar(Tail(s), c)

\* `sub in s` for non-empty sub
Contains(s, sub) ==
    \E i \in 1..Len(s) :
        /\ i + Len(sub) - 1 <= Len(s)
        /\ SubSeq(s, i, i + Len(sub) - 1) = sub

\* index of the first c in s at a position >= from, 0 when there is none
FirstIndexFrom(s, c, from) ==
    IF \E j \in from..Len(s) : s[j] = c
    THEN CHOOSE j \in from..Len(s) :
             /\ s[j] = c
             /\ \A k \in from..(j - 1) : s[k] # c
    ELSE 0

\* re.sub(r'<[^>]+>', '', s): a tag is '<', one or more characters other
\* than '>', then '>'; matches are taken leftmost, without overlap.
RECURSIVE StripTagsFrom(_, _)
StripTagsFrom(s, i) ==
    IF i > Len(s) THEN <<>>
    ELSE IF s[i] = "<"
         THEN LET j == FirstIndexFrom(s, ">", i + 1)
              IN  IF j >= i + 2 THEN StripTagsFrom(s, j + 1)
                  ELSE <<s[i]>> \o StripTagsFrom(s, i + 1)
         ELSE <<s[i]>> \o StripTagsFrom(s, i + 1)

StripTags(s) == StripTagsFrom(s, 1)

\* re.sub(r'\s+', ' ', s): every run of whitespace becomes one space
RECURSIVE CollapseFrom(_, _)
CollapseFrom(s, i) ==
    IF i > Len(s) THEN <<>>
    ELSE IF s[i] \in Whitespace
         THEN IF i > 1 /\ s[i - 1] \in Whitespace
              THEN CollapseFrom(s, i + 1)
              ELSE <<" ">> \o CollapseFrom(s, i + 1)
         ELSE <<s[i]>> \o CollapseFrom(s, i + 1)

CollapseWhitespace(s) == CollapseFrom(s, 1)

\* str.strip()
RECURSIVE LStrip(_)
LStrip(s) ==
    IF s # <<>> /\ Head(s) \in Whitespace THEN LStrip(Tail(s)) ELSE s

RECURSIVE RStrip(_)
RStrip(s) ==
    IF s # <<>> /\ s[Len(s)] \in Whitespace
    THEN RStrip(SubSeq(s, 1, Len(s) - 1))
    ELSE s

Strip(s) == LStrip(RStrip(s))

\* the maximal run of digits of s that starts at position i
RECURSIVE DigitRunFrom(_, _)
DigitRunFrom(s, i) ==
    IF i > Len(s) \/ s[i] \notin Digits THEN <<>>
    ELSE <<s[i]>> \o DigitRunFrom(s, i + 1)

\* group 1 of re.search(r'\$?([\d,]+)', s) and of re.search(r'([\d,]+)', s)
\* for s without commas: the leftmost maximal digit run (an optional '$'
\* in front of it is outside the group); <<>> when nothing matches.
FirstDigitRun(s) ==
    IF \E i \in 1..Len(s) : s[i] \in Digits
    THEN DigitRunFrom(s, CHOOSE i \in 1..Len(s) :
                             /\ s[i] \in Digits
                             /\ \A k \in 1..(i - 1) : s[k] \notin Digits)
    ELSE <<>>

\* group 0 of re.search(r'(19|20)\d{2}', s); <<>> when nothing matches
YearAt(s, i) ==
    /\ i + 3 <= Len(s)
    /\ SubSeq(s, i, i + 1) \in {<<"1", "9">>, <<"2", "0">>}
    /\ s[i + 2] \in Digits
    /\ s[i + 3] \in Digits

FirstYear(s) ==
    IF \E i \in 1..Len(s) : YearAt(s, i)
    THEN LET i == CHOOSE i \in 1..Len(s) :
                      YearAt(s, i) /\ \A k \in 1..(i - 1) : ~YearAt(s, k)
         IN  SubSeq(s, i, i + 3)
    ELSE <<>>

\* tag stripping followed by whitespace normalisation, shared by both
\* normalisers
CleanedText(s) == Strip(CollapseWhitespace(StripTags(s)))

(***************************************************************************)
(* GoalMapper._clean_text                                                  *)
(***************************************************************************)
PriceWord == <<"p", "r", "i", "c", "e">>

\* the digit run found when the separators are left in the text
NumberRunKeepingCommas(text) == FirstDigitRun(text)

\* the digit run a price or mileage rule parses: the text is searched with
\* its commas removed
NumberRun(text) == FirstDigitRun(RemoveChar(text, ","))

\* int(match.group(1)) when the rule applies and matched, else the text
IntOrText(applies, run, text) ==
    IF applies /\ run # <<>> THEN PyInt(ParseInt(run)) ELSE PyStr(text)

\* The price rule of _clean_text fires on the cleaned text ('$' in text or
\* 'price' in text.lower()), not on the field name.
CleanTextRule(text) ==
    IntOrText("$" \in {text[i] : i \in 1..Len(text)} \/ Contains(Lower(text), PriceWord),
              NumberRun(text), text)

CleanTextOfStr(s) == CleanTextRule(CleanedText(s))

\* _clean_text(x): a falsy argument gives ""; re.sub on a non-string raises
CleanText(x) ==
    IF ~Truthy(x) THEN PyStr(<<>>)
    ELSE IF x.t = "str" THEN CleanTextOfStr(x.v)
    ELSE PyRaise("TypeError")

(***************************************************************************)
(* StudioMapper._clean_extracted_value                                     *)
(***************************************************************************)
\* the type-specific rules, chosen by the field name
CleanExtractedValueRule(value, field_name) ==
    CASE field_name \in {"price", "mileage"} -> IntOrText(TRUE, NumberRun(value), value)
      [] field_name = "year" -> IntOrText(TRUE, FirstYear(value), value)
      [] OTHER -> PyStr(value)

CleanExtractedValueOfStr(s, field_name) ==
    CleanExtractedValueRule(CleanedText(s), field_name)

CleanExtractedValue(x, field_name) ==
    IF ~Truthy(x) THEN None
    ELSE IF x.t = "str" THEN CleanExtractedValueOfStr(x.v, field_name)
    ELSE PyRaise("TypeError")

(***************************************************************************)
(* Fractions for confidence scores                                         *)
(***************************************************************************)
Frac(n, d) == [n |-> n, d |-> d]
FracLess(a, b) == a.n * b.d < b.n * a.d
FracLeq(a, b) == a.n * b.d <= b.n * a.d
FracEq(a, b) == a.n * b.d = b.n * a.d
FracMax(a, b) == IF FracLess(a, b) THEN b ELSE a
FracMin(a, b) == IF FracLess(b, a) THEN b ELSE a
RECURSIVE Gcd(_, _)
Gcd(a, b) == IF b = 0 THEN a ELSE Gcd(b, a % b)

\* the fraction n/d in lowest terms, d > 0
Reduced(n, d) == Frac(n \div Gcd(n, d), d \div Gcd(n, d))

FracZero == Frac(0, 1)
FracOne == Frac(1, 1)

(***************************************************************************)
(* dict and list values                                                    *)
(***************************************************************************)
PyDict(f) == [t |-> "dict", v |-> f]
PyList(s) == [t |-> "list", v |-> s]
EmptyDict == <<>>

\* d[k] = x
DictPut(d, k, x) == [j \in DOMAIN d \cup {k} |-> IF j = k THEN x ELSE d[j]]

\* d.get(k)
DictGet(d, k) == IF k \in DOMAIN d THEN d[k] ELSE None

\* {**a, **b}
DictMerge(a, b) ==
    [k \in DOMAIN a \cup DOMAIN b |-> IF k \in DOMAIN b THEN b[k] ELSE a[k]]

(***************************************************************************)
(* Documents.  A page is the ordered list of its elements; an element has  *)
(* a name (the class or id a selector addresses) and an inner text.  An    *)
(* unparsable document is one lxml's html.fromstring raises on.            *)
(***************************************************************************)
Element(name, text) == [name |-> name, text |-> text]

UnparsableDoc == [parsable |-> FALSE, elems |-> <<>>]
Page(elems) == [parsable |-> TRUE, elems |-> elems]

\* the elements of the page a selector's name addresses, in document order
RECURSIVE Select(_, _)
Select(elems, name) ==
    IF elems = <<>> THEN <<>>
    ELSE IF Head(elems).name = name
         THEN <<Head(elems)>> \o Select(Tail(elems), name)
         ELSE Select(Tail(elems), name)

\* the serialised element, as parsel's getall() returns it
OuterHtml(e) == <<"<", e.name, ">">> \o e.text \o <<"<", "/", e.name, ">">>

(***************************************************************************)
(* Rules.  A rule string is the sequence of its leading character and the  *)
(* rest of the string; its kind is sniffed from the leading character.     *)
(***************************************************************************)
SelectorLeads == {"/", ".", "#", "["}

StrRule(text) == [kind |-> "str", text |-> text]
DictRule(selector, type) == [kind |-> "dict", selector |-> selector, type |-> type]
OtherRule == [kind |-> "other"]

\* rule.startswith(('/', '.', '#', '[', '//'))
IsSelectorText(text) == text # <<>> /\ text[1] \in SelectorLeads
IsXPathText(text) == text # <<>> /\ text[1] = "/"
SelectorName(text) == text[2]

(***************************************************************************)
(* GoalMapper: the three extraction engines                                *)
(***************************************************************************)
\* no result is None, one result is the cleaned scalar, several are the
\* list of the cleaned items
CleanResults(raw) ==
    IF raw = <<>> THEN None
    ELSE IF Len(raw) = 1 THEN CleanText(PyStr(raw[1]))
    ELSE PyList([i \in 1..Len(raw) |-> CleanText(PyStr(raw[i]))])

InnerTexts(found) == [i \in 1..Len(found) |-> found[i].text]
OuterHtmls(found) == [i \in 1..Len(found) |-> OuterHtml(found[i])]
FirstStripped(found) == IF found = <<>> THEN <<>> ELSE <<Strip(found[1].text)>>

\* _extract_xpath: str() of every result; an evaluation error is None
ExtractXPath(text, doc) ==
    IF ~IsXPathText(text) THEN None
    ELSE CleanResults(InnerTexts(Select(doc.elems, SelectorName(text))))

\* _extract_css: parsel raises on an XPath string, which is swallowed
ExtractCss(text, doc) ==
    IF IsXPathText(text) THEN None
    ELSE CleanResults(OuterHtmls(Select(doc.elems, SelectorName(text))))

\* _extract_soup: the first element only, get_text(strip=True); select_one
\* raises on an XPath string, which is swallowed
ExtractSoup(text, doc) ==
    IF IsXPathText(text) THEN None
    ELSE CleanResults(FirstStripped(Select(doc.elems, SelectorName(text))))

\* _extract_complex_rule: a placeholder that resolves nothing
ExtractComplexRule(rule, doc) == None

\* `if result: return result` over the three engines in turn
FirstTruthy(x, c, s) ==
    IF Truthy(x) THEN x
    ELSE IF Truthy(c) THEN c
    ELSE IF Truthy(s) THEN s
    ELSE None

\* _extract_field_value: a static string is its own value; a dict rule goes
\* to the placeholder; a selector is tried as XPath, CSS, then soup, each
\* accepted only if truthy; a rule of another type raises inside the try
\* and gives None.
ExtractFieldValue(rule, doc) ==
    IF rule.kind = "str" /\ ~IsSelectorText(rule.text) THEN PyStr(rule.text)
    ELSE IF rule.kind = "dict" THEN ExtractComplexRule(rule, doc)
    ELSE IF rule.kind # "str" THEN None
    ELSE FirstTruthy(ExtractXPath(rule.text, doc), ExtractCss(rule.text, doc),
                     ExtractSoup(rule.text, doc))

(***************************************************************************)
(* _set_nested_value.  A key is the sequence of its dot-separated parts.   *)
(* The result is [ok, data]; ok is FALSE when an intermediate value is not *)
(* a dict (TypeError), data then holds what was written before the raise.  *)
(***************************************************************************)
\* if part not in current: current[part] = {}
WithPart(data, part) ==
    IF part \in DOMAIN data THEN data ELSE DictPut(data, part, PyDict(EmptyDict))

\* the parent dict with the outcome of the descent below part put back
Ascend(created, part, inner) ==
    [ok |-> inner.ok, data |-> DictPut(created, part, PyDict(inner.data))]

RECURSIVE SetNestedValue(_, _, _)
RECURSIVE Descend(_, _, _)
Descend(created, key, value) ==
    IF created[key[1]].t # "dict" THEN [ok |-> FALSE, data |-> created]
    ELSE Ascend(created, key[1], SetNestedValue(created[key[1]].v, Tail(key), value))

SetNestedValue(data, key, value) ==
    IF Len(key) = 1 THEN [ok |-> TRUE, data |-> DictPut(data, key[1], value)]
    ELSE Descend(WithPart(data, key[1]), key, value)

(***************************************************************************)
(* GoalMapper.extract_from_html                                            *)
(***************************************************************************)
FallbackConfidence == Frac(7, 10)
MinFieldsMapped == 3

FieldEntry(key, rule) == [key |-> key, rule |-> rule]

\* the rule with the confidence threshold read inclusively
FallbackNeededInclusive(confidence, fields_mapped) ==
    FracLeq(confidence, FallbackConfidence) \/ fields_mapped < MinFieldsMapped

\* confidence < 0.7 or fields_mapped < 3
FallbackNeeded(confidence, fields_mapped) ==
    FracLess(confidence, FallbackConfidence) \/ fields_mapped < MinFieldsMapped

\* the ratio with an empty schema rated as fully mapped
ConfidenceEmptyAsFull(fields_mapped, fields_total) ==
    IF fields_total > 0 THEN Frac(fields_mapped, fields_total) ELSE FracOne

\* fields_mapped / fields_total if fields_total > 0 else 0.0
MappingConfidence(fields_mapped, fields_total) ==
    IF fields_total > 0 THEN Frac(fields_mapped, fields_total) ELSE FracZero

\* the field loop, from entry i on, threading (extracted_data, errors,
\* fields_mapped): a value that is not None is stored and counted; a raise
\* while storing it is recorded as that field's error and not counted.
FieldError(field, kind) == [field |-> field, kind |-> kind]

\* the loop state after _set_nested_value returned (counted) or raised
\* (recorded as "Failed to extract <field>")
Stored(acc, field, stored) ==
    IF stored.ok
    THEN [extracted_data |-> stored.data, errors |-> acc.errors,
          fields_mapped |-> acc.fields_mapped + 1]
    ELSE [extracted_data |-> stored.data,
          errors |-> Append(acc.errors, FieldError(field, "extract")),
          fields_mapped |-> acc.fields_mapped]

\* one iteration: `if value is not None:` store and count
MapField(acc, field, value) ==
    IF value = None THEN acc
    ELSE Stored(acc, field, SetNestedValue(acc.extracted_data, field, value))

RECURSIVE MapFields(_, _, _, _)
MapFields(mapping, doc, i, acc) ==
    IF i > Len(mapping) THEN acc
    ELSE MapFields(mapping, doc, i + 1,
                   MapField(acc, mapping[i].key, ExtractFieldValue(mapping[i].rule, doc)))

MappingResult(success, extracted_data, site_id, fields_mapped, fields_total, confidence, errors, fallback_needed) ==
    [success |-> success, extracted_data |-> extracted_data, mapping_used |-> site_id,
     fields_mapped |-> fields_mapped, fields_total |-> fields_total,
     confidence |-> confidence, errors |-> errors, fallback_needed |-> fallback_needed]

\* the result built after the field loop
Resolved(done, site_id, fields_total) ==
    MappingResult(done.fields_mapped > 0, done.extracted_data, site_id,
                  done.fields_mapped, fields_total,
                  MappingConfidence(done.fields_mapped, fields_total), done.errors,
                  FallbackNeeded(MappingConfidence(done.fields_mapped, fields_total),
                                 done.fields_mapped))

\* the resolution without the except branch around the parsing
ExtractFromHtmlUnguarded(registry, doc, site_id) ==
    IF site_id \notin DOMAIN registry
    THEN MappingResult(FALSE, EmptyDict, site_id, 0, 0, FracZero,
                       <<FieldError(<<>>, "no_mapping")>>, TRUE)
    ELSE Resolved(MapFields(registry[site_id], doc, 1,
                            [extracted_data |-> EmptyDict, errors |-> <<>>,
                             fields_mapped |-> 0]),
                  site_id, Len(registry[site_id]))

ExtractFromHtml(registry, doc, site_id) ==
    IF site_id \notin DOMAIN registry
    THEN MappingResult(FALSE, EmptyDict, site_id, 0, 0, FracZero,
                       <<FieldError(<<>>, "no_mapping")>>, TRUE)
    ELSE IF ~doc.parsable
    THEN MappingResult(FALSE, EmptyDict, site_id, 0, Len(registry[site_id]), FracZero,
                       <<FieldError(<<>>, "html_parsing")>>, TRUE)
    ELSE Resolved(MapFields(registry[site_id], doc, 1,
                            [extracted_data |-> EmptyDict, errors |-> <<>>,
                             fields_mapped |-> 0]),
                  site_id, Len(registry[site_id]))

(***************************************************************************)
(* AIGoalExtractor                                                         *)
(***************************************************************************)
AIStringFields ==
    {"vin", "make", "model", "color", "body_style", "transmission", "engine",
     "fuel_type", "drivetrain", "dealer_name", "dealer_phone", "dealer_address",
     "location", "listing_title"}
AIIntFields == {"year", "price", "mileage", "owners"}
AIArrayFields == {"features", "images"}

AICoreFields == {"vin", "make", "model", "year", "price"}
AIImportantFields == {"mileage", "dealer_name", "location"}
AIDetailFields == {"color", "transmission", "features", "images"}

\* re.sub(r'[^\d]', '', s)
RECURSIVE OnlyDigits(_)
OnlyDigits(s) ==
    IF s = <<>> THEN <<>>
    ELSE IF Head(s) \in Digits THEN <<Head(s)>> \o OnlyDigits(Tail(s))
    ELSE OnlyDigits(Tail(s))

\* [str(item).strip() for item in value if item and str(item).strip()]
RECURSIVE CleanArray(_)
CleanArray(items) ==
    IF items = <<>> THEN <<>>
    ELSE LET item == Head(items)
         IN  IF item.t = "str" /\ Strip(item.v) # <<>>
             THEN <<PyStr(Strip(item.v))>> \o CleanArray(Tail(items))
             ELSE CleanArray(Tail(items))

\* does _clean_extracted_data keep field f of the parsed response
AIKeeps(data, f) ==
    LET value == DictGet(data, f)
    IN  CASE f \in AIStringFields -> value.t = "str" /\ Strip(value.v) # <<>>
          [] f \in AIIntFields ->
                 \/ value.t = "int"
                 \/ value.t = "str" /\ OnlyDigits(value.v) # <<>>
          [] f \in AIArrayFields -> value.t = "list" /\ CleanArray(value.v) # <<>>
          [] f = "accidents" -> value.t \in {"bool", "str"}
          [] OTHER -> FALSE

AICleanValue(data, f) ==
    LET value == DictGet(data, f)
    IN  CASE f \in AIStringFields -> PyStr(Strip(value.v))
          [] f \in AIIntFields ->
                 IF value.t = "int" THEN value ELSE PyInt(ParseInt(OnlyDigits(value.v)))
          [] f \in AIArrayFields -> PyList(CleanArray(value.v))
          [] OTHER ->
                 IF value.t = "bool" THEN value
                 ELSE PyBool(Lower(value.v) \in {<<"t", "r", "u", "e">>, <<"y", "e", "s">>, <<"1">>})

\* _clean_extracted_data
CleanExtractedData(data) ==
    [f \in {g \in DOMAIN data : AIKeeps(data, g)} |-> AICleanValue(data, f)]

AIFound(data, fields) == Cardinality({f \in fields : Truthy(DictGet(data, f))})

\* the score without the cap
UncappedAIConfidence(data) ==
    Frac(15 * AIFound(data, AICoreFields) + 10 * AIFound(data, AIImportantFields)
           + 5 * AIFound(data, AIDetailFields), 100)

\* _calculate_ai_confidence, in hundredths: 15 per core field, 10 per
\* important field, 5 per detail field, capped at 1.0
CalculateAIConfidence(data) ==
    FracMin(Frac(15 * AIFound(data, AICoreFields)
                   + 10 * AIFound(data, AIImportantFields)
                   + 5 * AIFound(data, AIDetailFields), 100),
            FracOne)

AIExtractionResult(success, extracted_data, confidence) ==
    [success |-> success, extracted_data |-> extracted_data, confidence |-> confidence]

\* on failure extracted_data and confidence keep their default, None
AIFailure == AIExtractionResult(FALSE, None, None)

\* AIGoalExtractor.extract_from_html for one outcome of the backend call:
\* the client raising and a reply without JSON are failures; a JSON reply
\* is cleaned, and is a success only if something survives the cleaning.
AIResultOf(cleaned) ==
    IF DOMAIN cleaned = {} THEN AIFailure
    ELSE AIExtractionResult(TRUE, cleaned, CalculateAIConfidence(cleaned))

AIExtractFromHtml(reply) ==
    IF reply.kind # "json" THEN AIFailure
    ELSE AIResultOf(CleanExtractedData(reply.data))

(***************************************************************************)
(* The mapping registry and the documents of the model                     *)
(***************************************************************************)
Sel(name) == StrRule(<<".", name>>)
XPathSel(name) == StrRule(<<"/", name>>)
Static(word) == StrRule(<<"B", word>>)

VinText == <<"1", "H", "G">>
PriceText == <<"$", "3", "1", ",", "6", "5", "0">>
YearText == <<"2", "0", "1", "9">>
MakeText == <<"H", "o", "n", "d", "a">>
ModelText == <<"C", "i", "v", "i", "c">>
DealerText == <<"A", "c", "m", "e">>

\* the state of loaded_mappings after _load_all_mappings
Registry ==
    [site \in {"price1", "site2", "site3", "site5", "site10", "clash", "invalid", "empty"} |->
        CASE site = "price1" ->
                 << FieldEntry(<<"price">>, Sel("price")) >>
          [] site = "site2" ->
                 << FieldEntry(<<"vin">>, Sel("vin")),
                    FieldEntry(<<"goal">>, Static("uy")) >>
          [] site = "site3" ->
                 << FieldEntry(<<"vin">>, Sel("vin")),
                    FieldEntry(<<"goal">>, Static("uy")),
                    FieldEntry(<<"price">>, Sel("price")) >>
          [] site = "site5" ->
                 << FieldEntry(<<"vin">>, Sel("vin")),
                    FieldEntry(<<"goal">>, Static("uy")),
                    FieldEntry(<<"price">>, Sel("price")),
                    FieldEntry(<<"year">>, Sel("year")),
                    FieldEntry(<<"make">>, Sel("make")) >>
          [] site = "clash" ->
                 << FieldEntry(<<"vin">>, Sel("vin")),
                    FieldEntry(<<"goal">>, Static("uy")),
                    FieldEntry(<<"dealer">>, Sel("dealer")),
                    FieldEntry(<<"dealer", "name">>, Sel("dealer")) >>
          [] site = "invalid" ->
                 << FieldEntry(<<"vin">>, Sel("vin")),
                    FieldEntry(<<"price">>, Sel("price")),
                    FieldEntry(<<"year">>, Sel("year")),
                    FieldEntry(<<"model">>, XPathSel("[")) >>
          [] site = "site10" ->
                 << FieldEntry(<<"vin">>, Sel("vin")),
                    FieldEntry(<<"goal">>, Static("uy")),
                    FieldEntry(<<"price">>, Sel("price")),
                    FieldEntry(<<"year">>, Sel("year")),
                    FieldEntry(<<"make">>, Sel("make")),
                    FieldEntry(<<"model">>, XPathSel("model")),
                    FieldEntry(<<"dealer", "name">>, Sel("dealer")),
                    FieldEntry(<<"currency">>, Static("USD")),
                    FieldEntry(<<"source">>, Static("listing")),
                    FieldEntry(<<"_metadata">>, DictRule(<<>>, "css")) >>
          [] OTHER -> <<>>]

SiteIds == DOMAIN Registry \cup {"nosite"}

AllElements ==
    << Element("vin", VinText), Element("price", PriceText),
       Element("year", YearText), Element("make", MakeText),
       Element("model", ModelText), Element("dealer", DealerText) >>

ElementNames == {AllElements[i].name : i \in 1..Len(AllElements)}

RECURSIVE Keep(_, _)
Keep(elems, names) ==
    IF elems = <<>> THEN <<>>
    ELSE IF Head(elems).name \in names
         THEN <<Head(elems)>> \o Keep(Tail(elems), names)
         ELSE Keep(Tail(elems), names)

\* the pages of the model, by the elements they hold: the first k elements
\* for every k, and some pages that lack the leading ones
PageContents ==
    {{AllElements[i].name : i \in 1..k} : k \in 0..Len(AllElements)}
        \cup {{"price"}, {"dealer"}, {"model"}, {"year", "make", "model"},
              {"price", "year", "make", "model", "dealer"}}

Docs == {Page(Keep(AllElements, names)) : names \in PageContents} \cup {UnparsableDoc}

(***************************************************************************)
(* Replies of the AI backend used by the model                             *)
(***************************************************************************)
AICoreOrder == <<"price", "vin", "make", "model", "year">>
AIImportantOrder == <<"mileage", "dealer_name", "location">>
AIDetailOrder == <<"color", "transmission", "features", "images">>

AISampleValue(f) ==
    CASE f = "price" -> PyStr(<<"$", "3", "1", ",", "7", "0", "0">>)
      [] f = "vin" -> PyStr(<<" ", "1", "H", "G", "X">>)
      [] f = "year" -> PyInt(2020)
      [] f = "mileage" -> PyInt(12345)
      [] f \in AIArrayFields -> PyList(<<PyStr(<<"x">>), PyStr(<<" ">>)>>)
      [] OTHER -> PyStr(<<"A", "I">>)

Prefix(order, k) == {order[i] : i \in 1..k}

\* a JSON reply naming the first kc core, ki important and kd detail
\* fields, null for the others, and body_style when extra; the replies of
\* the model name any number of core fields and none or all of the others
AIReplyData(kc, ki, kd, extra) ==
    LET named == Prefix(AICoreOrder, kc) \cup Prefix(AIImportantOrder, ki)
                     \cup Prefix(AIDetailOrder, kd)
                     \cup (IF extra THEN {"body_style"} ELSE {})
        keys == AICoreFields \cup AIImportantFields \cup AIDetailFields \cup {"body_style"}
    IN  [f \in keys |-> IF f \in named THEN AISampleValue(f) ELSE None]

AIReplies ==
    {[kind |-> "raises"], [kind |-> "no_json"]}
        \cup {[kind |-> "json", data |-> AIReplyData(kc, ki, kd, extra)] :
                 kc \in 0..Len(AICoreOrder), ki \in {0, Len(AIImportantOrder)},
                 kd \in {0, Len(AIDetailOrder)}, extra \in BOOLEAN}

(***************************************************************************)
(* models.py: VehicleData, ParseResult, SearchTrace                        *)
(***************************************************************************)
VehicleFields ==
    {"vin", "make", "model", "year", "price", "mileage", "color", "body_style",
     "transmission", "engine", "fuel_type", "drivetrain", "features", "images",
     "dealer_name", "dealer_phone", "dealer_address", "dealer_rating",
     "location", "listing_title", "accidents", "owners"}

\* the validators: an out-of-range price, year or mileage becomes None
Validated(f, x) ==
    CASE f = "price" /\ x.t = "int" /\ x.v <= 0 -> None
      [] f = "year" /\ x.t = "int" /\ (x.v < 1900 \/ x.v > 2030) -> None
      [] f = "mileage" /\ x.t = "int" /\ x.v < 0 -> None
      [] OTHER -> x

\* VehicleData(**data) for well-typed data: unknown keys are ignored,
\* absent fields take their defaults
VehicleData(data) ==
    [f \in VehicleFields |->
        IF f \in DOMAIN data THEN Validated(f, data[f])
        ELSE IF f \in {"features", "images"} THEN PyList(<<>>)
        ELSE None]

Word(w) == [t |-> "word", v |-> w]

\* _generate_goal_text: the words of the text, in order
GenerateGoalText(vd) ==
    [t |-> "text",
     v |-> <<Word("Buy"), Word("a")>>
           \o (IF Truthy(vd.mileage) /\ vd.mileage.v < 30000 THEN <<Word("low-mileage")>>
               ELSE IF Truthy(vd.mileage) /\ vd.mileage.v > 100000
                    THEN <<Word("high-mileage")>>
               ELSE <<>>)
           \o (IF vd.accidents = PyBool(FALSE) THEN <<Word("clean")>> ELSE <<>>)
           \o (IF Truthy(vd.year) /\ Truthy(vd.make) /\ Truthy(vd.model)
               THEN <<vd.year, vd.make, vd.model>>
               ELSE IF Truthy(vd.make) /\ Truthy(vd.model) THEN <<vd.make, vd.model>>
               ELSE IF Truthy(vd.listing_title) THEN <<vd.listing_title>>
               ELSE <<Word("vehicle")>>)
           \o (IF Truthy(vd.price) THEN <<Word("for"), vd.price>> ELSE <<>>)]

GoalKeys ==
    (VehicleFields \ {"dealer_name", "dealer_phone", "dealer_address", "owners"})
        \cup {"goal", "dealer"}

\* the goal_data dict of to_goal_json, before the None values are removed
GoalData(vd) ==
    [k \in GoalKeys |->
        CASE k = "goal" -> GenerateGoalText(vd)
          [] k = "dealer" ->
                 IF Truthy(vd.dealer_name)
                 THEN PyDict([j \in {"name", "phone", "address"} |->
                                 CASE j = "name" -> vd.dealer_name
                                   [] j = "phone" -> vd.dealer_phone
                                   [] OTHER -> vd.dealer_address])
                 ELSE None
          [] k = "images" ->
                 PyList(SubSeq(vd.images.v, 1,
                               IF Len(vd.images.v) < 5 THEN Len(vd.images.v) ELSE 5))
          [] OTHER -> vd[k]]

WithoutNone(d) == [k \in {j \in DOMAIN d : d[j] # None} |-> d[k]]

ToGoalJson(vd) == WithoutNone(GoalData(vd))

\* ParseResult; parse_time, source_url and domain are not part of the model,
\* raw_extracted_data is at its default
ParseResult(success, vehicle_data, error, parser_used, confidence_score) ==
    [success |-> success, vehicle_data |-> vehicle_data, error |-> error,
     parser_used |-> parser_used, confidence_score |-> confidence_score,
     raw_extracted_data |-> None]

\* ParseResult(..., raw_extracted_data=raw)
WithRawData(result, raw) == [result EXCEPT !.raw_extracted_data = PyDict(raw)]

ParseFailure(error, parser_used) ==
    ParseResult(FALSE, None, PyStr(error), parser_used, None)

\* SearchTrace(input_type=..., input_value=...): the other fields at their
\* defaults; search_results is kept as the number of results
SearchTrace(input_type) ==
    [input_type |-> input_type, search_results |-> 0, selected_url |-> None,
     fetch_success |-> FALSE, fetch_error |-> None, parse_result |-> None,
     final_goal |-> None]

\* AIExtractionResult.to_vehicle_data
ToVehicleData(ai) ==
    IF ~ai.success \/ DOMAIN ai.extracted_data = {} THEN None
    ELSE VehicleData(ai.extracted_data)

(***************************************************************************)
(* GenericParser                                                           *)
(***************************************************************************)
\* what _extract_basic_patterns found, for the fields the scoring reads
HeuristicSample(f) ==
    CASE f = "vin" -> PyStr(VinText)
      [] f = "price" -> PyInt(31650)
      [] f = "make" -> PyStr(MakeText)
      [] f = "model" -> PyStr(ModelText)
      [] f = "year" -> PyInt(2019)
      [] f = "mileage" -> PyInt(12345)
      [] f = "dealer_name" -> PyStr(DealerText)
      [] f = "images" ->
             PyList([i \in 1..6 |-> PyStr(<<"i", <<"1", "2", "3", "4", "5", "6">>[i]>>)])
      [] OTHER -> PyList(<<PyStr(<<"i">>)>>)

HeuristicData(found) == [f \in found |-> HeuristicSample(f)]

\* the gate passed by a single one of vin, price, make
HasAnyCoreData(data) ==
    Cardinality({f \in {"vin", "price", "make"} : Truthy(DictGet(data, f))}) >= 1

\* _has_sufficient_data: at least two of vin, price, make
HasSufficientData(data) ==
    Cardinality({f \in {"vin", "price", "make"} : Truthy(DictGet(data, f))}) >= 2

Scored(data, f, hundredths) == IF Truthy(DictGet(data, f)) THEN hundredths ELSE 0

\* _calculate_confidence, in hundredths
CalculateConfidence(data) ==
    FracMin(Frac(Scored(data, "vin", 40) + Scored(data, "price", 30)
                   + Scored(data, "make", 10) + Scored(data, "model", 10)
                   + Scored(data, "year", 10) + Scored(data, "mileage", 5)
                   + Scored(data, "dealer_name", 5) + Scored(data, "images", 5), 100),
            FracOne)

HeuristicThreshold == Frac(7, 10)

\* {'cleaned_html': prepared_content, 'requires_ai': True}
PreparedForAI ==
    [k \in {"cleaned_html", "requires_ai"} |->
        IF k = "cleaned_html" THEN PyStr(<<"h">>) ELSE PyBool(TRUE)]

\* the ParseResult of parse once vehicle_data and confidence_score are set
GenericResult(vehicle_data, confidence_score, extracted_data) ==
    IF FracLess(confidence_score, HeuristicThreshold)
    THEN WithRawData(ParseResult(FALSE, vehicle_data, PyStr("Insufficient data"),
                                 "generic", confidence_score),
                     DictMerge(extracted_data, PreparedForAI))
    ELSE WithRawData(ParseResult(TRUE, vehicle_data, None, "generic", confidence_score),
                     extracted_data)

\* GenericParser.parse for one outcome of the page analysis: it raising,
\* or the data it found and whether VehicleData accepts them
GenericParse(page) ==
    IF page.kind = "raises" THEN ParseFailure("error", "generic")
    ELSE IF HasSufficientData(page.data) /\ page.valid
    THEN GenericResult(VehicleData(page.data), CalculateConfidence(page.data), page.data)
    ELSE GenericResult(None, FracZero, page.data)

(***************************************************************************)
(* StudioMapper.preview_mapping                                            *)
(***************************************************************************)
\* the field names of the model that start with '_'
PrivateNames == {"_metadata"}

\* field_name.startswith('_')
IsPrivate(key) == key[1] \in PrivateNames

\* the field name the type rules read; a dotted name is none of the typed
\* names
FieldName(key) == IF Len(key) = 1 THEN key[1] ELSE "dotted"

\* FieldExtractionResult; selector, element_html and element_position are
\* not part of the model
FieldExtractionResult(success, value, selector_type, error) ==
    [success |-> success, value |-> value, selector_type |-> selector_type,
     error |-> error]

FieldFailure(selector_type, error) ==
    FieldExtractionResult(FALSE, None, selector_type, PyStr(error))

\* the cleaned values of the XPath results: a scalar for one, a list for more
StudioCleanResults(raw, field_name) ==
    IF Len(raw) = 1 THEN CleanExtractedValue(PyStr(raw[1]), field_name)
    ELSE PyList([i \in 1..Len(raw) |-> CleanExtractedValue(PyStr(raw[i]), field_name)])

\* _extract_xpath_field; a selector that is no XPath makes tree.xpath raise
ExtractXPathField(field_name, xpath, doc) ==
    IF ~IsXPathText(xpath) THEN FieldFailure("xpath", "XPath extraction failed")
    ELSE IF Select(doc.elems, SelectorName(xpath)) = <<>>
    THEN FieldFailure("xpath", "No elements found with XPath")
    ELSE FieldExtractionResult(TRUE,
             StudioCleanResults(InnerTexts(Select(doc.elems, SelectorName(xpath))),
                                field_name),
             "xpath", None)

\* `if value: value = self._clean_extracted_value(value, field_name)`
CleanIfTruthy(text, field_name) ==
    IF text = <<>> THEN PyStr(text) ELSE CleanExtractedValue(PyStr(text), field_name)

\* _extract_css_field: the first match, get_text(strip=True); an XPath
\* string makes soup.select raise
ExtractCssField(field_name, selector, doc) ==
    IF IsXPathText(selector) THEN FieldFailure("css", "CSS extraction failed")
    ELSE IF Select(doc.elems, SelectorName(selector)) = <<>>
    THEN FieldFailure("css", "No elements found with selector")
    ELSE FieldExtractionResult(TRUE,
             CleanIfTruthy(Strip(Select(doc.elems, SelectorName(selector))[1].text),
                           field_name),
             "css", None)

\* the selector and selector type _extract_single_field settles on
SelectorOf(rule) == IF rule.kind = "dict" THEN rule.selector ELSE rule.text
SelectorTypeOf(rule) ==
    IF rule.kind = "dict" THEN rule.type
    ELSE IF IsXPathText(rule.text) THEN "xpath" ELSE "css"

\* _extract_single_field
ExtractSingleField(field_name, rule, doc) ==
    IF rule.kind = "str" /\ ~IsSelectorText(rule.text)
    THEN FieldExtractionResult(TRUE, PyStr(rule.text), "static", None)
    ELSE IF SelectorOf(rule) = <<>> THEN FieldFailure("none", "No selector provided")
    ELSE IF SelectorTypeOf(rule) = "xpath"
    THEN ExtractXPathField(field_name, SelectorOf(rule), doc)
    ELSE ExtractCssField(field_name, SelectorOf(rule), doc)

PreviewResult(success, extracted_data, field_results, errors, total_fields, successful_fields, confidence) ==
    [success |-> success, extracted_data |-> extracted_data,
     field_results |-> field_results, errors |-> errors,
     total_fields |-> total_fields, successful_fields |-> successful_fields,
     confidence |-> confidence]

\* the except branch of preview_mapping
PreviewFailed ==
    PreviewResult(FALSE, EmptyDict, EmptyDict, <<PyStr("Preview failed")>>, 0, 0, FracZero)

\* the loop state after _set_nested_value returned or raised
PreviewStored(acc, stored) ==
    [acc EXCEPT !.extracted_data = stored.data,
                !.successful_fields = IF stored.ok THEN @ + 1 ELSE @,
                !.raised = ~stored.ok]

\* one iteration of the loop, the field result being known
PreviewField(acc, key, field_result) ==
    IF field_result.success /\ field_result.value # None
    THEN PreviewStored([acc EXCEPT !.field_results = DictPut(@, key, field_result)],
                       SetNestedValue(acc.extracted_data, key, field_result.value))
    ELSE [acc EXCEPT !.field_results = DictPut(@, key, field_result),
                     !.errors = IF field_result.error # None
                                THEN Append(@, FieldError(key, "field")) ELSE @]

RECURSIVE PreviewFields(_, _, _, _)
PreviewFields(config, doc, i, acc) ==
    IF i > Len(config) \/ acc.raised THEN acc
    ELSE IF IsPrivate(config[i].key)
    THEN PreviewFields(config, doc, i + 1, acc)
    ELSE PreviewFields(config, doc, i + 1,
             PreviewField(acc, config[i].key,
                          ExtractSingleField(FieldName(config[i].key),
                                             config[i].rule, doc)))

\* the count that keeps the keys starting with '_'
TotalFieldsWithPrivate(config) == Len(config)

\* len([f for f in config.keys() if not f.startswith('_')])
TotalFields(config) ==
    Cardinality({i \in 1..Len(config) : ~IsPrivate(config[i].key)})

\* successful_fields / total_fields if total_fields > 0 else 0.0
PreviewConfidence(successful_fields, total_fields) ==
    IF total_fields > 0 THEN Frac(successful_fields, total_fields) ELSE FracZero

\* the result built after the loop; an exception that left the loop is
\* caught by the handler
Previewed(done, total_fields) ==
    IF done.raised THEN PreviewFailed
    ELSE PreviewResult(done.successful_fields > 0, done.extracted_data,
                       done.field_results, done.errors, total_fields,
                       done.successful_fields,
                       PreviewConfidence(done.successful_fields, total_fields))

PreviewMapping(config, doc) ==
    IF ~doc.parsable THEN PreviewFailed
    ELSE Previewed(PreviewFields(config, doc, 1,
                                 [extracted_data |-> EmptyDict, field_results |-> EmptyDict,
                                  errors |-> <<>>, successful_fields |-> 0,
                                  raised |-> FALSE]),
                   TotalFields(config))

(***************************************************************************)
(* Schema validation: GoalMapper.validate_mapping and                      *)
(* StudioMapper.validate_mapping_config                                    *)
(***************************************************************************)
RequiredFields == <<"vin", "goal">>

MappingKeys(mapping) == {mapping[i].key : i \in DOMAIN mapping}

\* "Missing required field: <field>" for every required field not in mapping
MissingRequired(mapping) ==
    SelectSeq([i \in DOMAIN RequiredFields |-> FieldError(<<RequiredFields[i]>>, "missing_required")],
              LAMBDA e : e.field \notin MappingKeys(mapping))

\* etree.XPath(selector) compiles the expression
XPathCompiles(text) == SelectorName(text) # "["

\* the selector syntax check of one entry: only an XPath string is compiled,
\* the CSS branch adds no error
InvalidSelector(entry) ==
    /\ ~IsPrivate(entry.key)
    /\ entry.rule.kind = "str"
    /\ IsXPathText(entry.rule.text)
    /\ ~XPathCompiles(entry.rule.text)

InvalidSelectors(mapping) ==
    SelectSeq([i \in DOMAIN mapping |-> FieldError(mapping[i].key, "invalid_selector")],
              LAMBDA e : \E i \in DOMAIN mapping :
                             mapping[i].key = e.field /\ InvalidSelector(mapping[i]))

ValidationResult(errors) == [valid |-> errors = <<>>, errors |-> errors]

\* GoalMapper.validate_mapping
ValidateMapping(registry, site_id) ==
    IF site_id \notin DOMAIN registry
    THEN ValidationResult(<<FieldError(<<>>, "mapping_not_found")>>)
    ELSE ValidationResult(MissingRequired(registry[site_id])
                              \o InvalidSelectors(registry[site_id]))

\* the per-field check of validate_mapping_config: a dict needs a selector
\* and a type of css or xpath, a string is accepted, anything else is not
InvalidConfig(entry) ==
    /\ ~IsPrivate(entry.key)
    /\ \/ entry.rule.kind = "dict" /\ entry.rule.type \notin {"css", "xpath"}
       \/ entry.rule.kind \notin {"dict", "str"}

InvalidConfigs(config) ==
    SelectSeq([i \in DOMAIN config |-> FieldError(config[i].key, "invalid_config")],
              LAMBDA e : \E i \in DOMAIN config :
                             config[i].key = e.field /\ InvalidConfig(config[i]))

\* StudioMapper.validate_mapping_config
ValidateMappingConfig(config) ==
    ValidationResult(MissingRequired(config) \o InvalidConfigs(config))

(***************************************************************************)
(* difflib.SequenceMatcher(None, a, b).ratio() for texts too short for the *)
(* popularity heuristic                                                    *)
(***************************************************************************)
\* the length of the common run that starts at a[i] and b[j], inside
\* a[..ahi) and b[..bhi)
RECURSIVE RunLength(_, _, _, _, _, _)
RunLength(a, b, i, j, ahi, bhi) ==
    IF i >= ahi \/ j >= bhi \/ a[i] # b[j] THEN 0
    ELSE 1 + RunLength(a, b, i + 1, j + 1, ahi, bhi)

\* the block find_longest_match picks among the runs: the longest, of those
\* the one starting earliest in a, of those the one starting earliest in b
BestOf(runs) ==
    CHOOSE r \in runs :
        \A q \in runs :
            \/ r.size > q.size
            \/ r.size = q.size /\ r.i < q.i
            \/ r.size = q.size /\ r.i = q.i /\ r.j <= q.j

FindLongestMatch(a, b, alo, ahi, blo, bhi) ==
    BestOf({[i |-> i, j |-> j, size |-> RunLength(a, b, i, j, ahi, bhi)] :
               i \in alo..(ahi - 1), j \in blo..(bhi - 1)}
           \cup {[i |-> alo, j |-> blo, size |-> 0]})

\* the total size of the matching blocks: the longest match, then the same
\* to its left and to its right
RECURSIVE MatchedSize(_, _, _, _, _, _)
RECURSIVE AroundMatch(_, _, _, _, _, _, _)
AroundMatch(a, b, alo, ahi, blo, bhi, m) ==
    IF m.size = 0 THEN 0
    ELSE m.size + MatchedSize(a, b, alo, m.i, blo, m.j)
                + MatchedSize(a, b, m.i + m.size, ahi, m.j + m.size, bhi)

MatchedSize(a, b, alo, ahi, blo, bhi) ==
    IF alo >= ahi \/ blo >= bhi THEN 0
    ELSE AroundMatch(a, b, alo, ahi, blo, bhi, FindLongestMatch(a, b, alo, ahi, blo, bhi))

\* 2.0 * matches / (len(a) + len(b)), and 1.0 for two empty texts
Ratio(a, b) ==
    IF Len(a) + Len(b) = 0 THEN FracOne
    ELSE Frac(2 * MatchedSize(a, b, 1, Len(a) + 1, 1, Len(b) + 1), Len(a) + Len(b))

(***************************************************************************)
(* ResultComparator                                                        *)
(***************************************************************************)
DigitChars == <<"0", "1", "2", "3", "4", "5", "6", "7", "8", "9">>

\* str(n) for an int n >= 0
RECURSIVE IntText(_)
IntText(n) ==
    IF n < 10 THEN <<DigitChars[n + 1]>>
    ELSE IntText(n \div 10) \o <<DigitChars[(n % 10) + 1]>>

\* ", ".join(repr(item)) for the str items of a list
RECURSIVE ReprItems(_)
ReprItems(items) ==
    IF items = <<>> THEN <<>>
    ELSE <<"'">> \o Head(items).v \o <<"'">>
         \o (IF Len(items) > 1 THEN <<",", " ">> ELSE <<>>) \o ReprItems(Tail(items))

\* str(value) of a str, a non-negative int, a bool or a list of str
StrOf(x) ==
    CASE x.t = "str" -> x.v
      [] x.t = "int" -> IntText(x.v)
      [] x.t = "bool" -> IF x.v THEN <<"T", "r", "u", "e">> ELSE <<"F", "a", "l", "s", "e">>
      [] x.t = "list" -> <<"[">> \o ReprItems(x.v) \o <<"]">>

\* a non-empty run of digits
IsDigitRun(s) == s # <<>> /\ \A i \in 1..Len(s) : s[i] \in Digits

\* does float(s) succeed: for a text of digits, '-', letters other than
\* those of inf and nan, blanks, ',' and '$', exactly when it is a run of
\* digits, with or without one '-' in front, and blanks around it
IsFloatText(s) ==
    \/ IsDigitRun(Strip(s))
    \/ Strip(s) # <<>> /\ Head(Strip(s)) = "-" /\ IsDigitRun(Tail(Strip(s)))

FloatOf(s) ==
    IF Head(Strip(s)) = "-" THEN 0 - ParseInt(Tail(Strip(s))) ELSE ParseInt(Strip(s))

\* _is_numeric
IsNumeric(value) == IsFloatText(RemoveChar(RemoveChar(value, ","), "$"))

\* the quotient n / d as a fraction with a positive denominator, d # 0
Quotient(n, d) == IF d < 0 THEN Frac(0 - n, 0 - d) ELSE Frac(n, d)

\* abs(num1 - num2) / max(num1, num2); the quotient is negative when both
\* numbers are
RelativeDifference(num1, num2) ==
    IF num1 < num2 THEN Quotient(num2 - num1, num2) ELSE Quotient(num1 - num2, num1)

\* max(0.0, 1.0 - diff)
OneMinus(diff) == FracMax(FracZero, Frac(diff.d - diff.n, diff.d))

\* the numeric branch
NumericSimilarity(num1, num2) ==
    IF num1 = num2 THEN FracOne
    ELSE IF num1 = 0 \/ num2 = 0 THEN FracZero
    ELSE OneMinus(RelativeDifference(num1, num2))

\* the comparison of the two lowercase-trimmed string forms
TextSimilarity(str1, str2) ==
    IF str1 = str2 THEN FracOne
    ELSE IF IsNumeric(str1) /\ IsNumeric(str2)
            /\ IsFloatText(RemoveChar(str1, ",")) /\ IsFloatText(RemoveChar(str2, ","))
    THEN NumericSimilarity(FloatOf(RemoveChar(str1, ",")), FloatOf(RemoveChar(str2, ",")))
    ELSE Ratio(str1, str2)

\* _calculate_field_similarity
CalculateFieldSimilarity(v1, v2) ==
    IF v1 = None /\ v2 = None THEN FracOne
    ELSE IF v1 = None \/ v2 = None THEN FracZero
    ELSE TextSimilarity(Lower(Strip(StrOf(v1))), Lower(Strip(StrOf(v2))))

MatchThreshold == Frac(9, 10)

FieldComparison(field_name, mapping_value, ai_value, match, sim, difference_type) ==
    [field_name |-> field_name, mapping_value |-> mapping_value, ai_value |-> ai_value,
     match |-> match, similarity |-> sim, difference_type |-> difference_type,
     confidence |-> None]

\* the row of two present values
Compared(field_name, mapping_value, ai_value, sim) ==
    FieldComparison(field_name, mapping_value, ai_value, FracLeq(MatchThreshold, sim), sim,
                    IF FracLeq(MatchThreshold, sim) THEN "match" ELSE "different")

\* the rows with no partial credit for a value only the mapping found
ComparisonOfNoCredit(field_name, mapping_value, ai_value) ==
    IF mapping_value = None
    THEN FieldComparison(field_name, None, ai_value, FALSE, FracZero, "missing")
    ELSE IF ai_value = None
    THEN FieldComparison(field_name, mapping_value, None, FALSE, FracZero, "extra")
    ELSE Compared(field_name, mapping_value, ai_value,
                  CalculateFieldSimilarity(mapping_value, ai_value))

\* the row of a field at least one side holds
ComparisonOf(field_name, mapping_value, ai_value) ==
    IF mapping_value = None
    THEN FieldComparison(field_name, None, ai_value, FALSE, FracZero, "missing")
    ELSE IF ai_value = None
    THEN FieldComparison(field_name, mapping_value, None, FALSE, Frac(1, 2), "extra")
    ELSE Compared(field_name, mapping_value, ai_value,
                  CalculateFieldSimilarity(mapping_value, ai_value))

\* the confidence the row takes from the mapping's result for that field
WithConfidence(row, mapping_field_results) ==
    IF <<row.field_name>> \notin DOMAIN mapping_field_results THEN row
    ELSE [row EXCEPT !.confidence =
              IF mapping_field_results[<<row.field_name>>].success
              THEN Frac(8, 10) ELSE FracZero]

ImportantFields == <<"vin", "price", "year", "make", "model", "mileage">>

\* the field names of the model in the order of Python's string comparison
NameOrder ==
    <<"_metadata", "accidents", "body_style", "color", "currency", "dealer",
      "dealer_name", "features", "goal", "images", "location", "make", "mileage",
      "model", "price", "source", "transmission", "vin", "year">>

IndexIn(seq, x) == CHOOSE i \in 1..Len(seq) : seq[i] = x

\* the sort key: (important_fields.index(name) or 999, name)
SortsBefore(f, g) ==
    LET rank(x) == IF \E i \in 1..Len(ImportantFields) : ImportantFields[i] = x
                   THEN IndexIn(ImportantFields, x) ELSE 999
    IN  \/ rank(f) < rank(g)
        \/ rank(f) = rank(g) /\ IndexIn(NameOrder, f) < IndexIn(NameOrder, g)

\* comparisons.sort(key=...) over the rows of the given fields
RECURSIVE SortedRows(_, _, _, _)
SortedRows(fields, mapping_data, ai_data, mapping_field_results) ==
    IF fields = {} THEN <<>>
    ELSE LET first == CHOOSE f \in fields : \A g \in fields \ {f} : SortsBefore(f, g)
         IN  <<WithConfidence(ComparisonOf(first, DictGet(mapping_data, first),
                                           DictGet(ai_data, first)),
                              mapping_field_results)>>
             \o SortedRows(fields \ {first}, mapping_data, ai_data, mapping_field_results)

\* _compare_fields: a field neither side holds a value of gives no row
CompareFields(mapping_data, ai_data, mapping_field_results) ==
    SortedRows({f \in DOMAIN mapping_data \cup DOMAIN ai_data :
                   DictGet(mapping_data, f) # None \/ DictGet(ai_data, f) # None},
               mapping_data, ai_data, mapping_field_results)

\* field_weights, doubled
FieldWeight(field_name) ==
    CASE field_name = "vin" -> 6
      [] field_name = "price" -> 5
      [] field_name \in {"year", "make", "model"} -> 4
      [] field_name = "mileage" -> 3
      [] OTHER -> 2

\* total_weighted_score += comparison.similarity * weight
AddWeighted(sim, weight, score) ==
    Reduced(sim.n * weight * score.d + score.n * sim.d, sim.d * score.d)

\* the sums of similarity * weight and of the weights over the rows
RECURSIVE WeightedScore(_)
WeightedScore(comparisons) ==
    IF comparisons = <<>> THEN FracZero
    ELSE AddWeighted(Head(comparisons).similarity,
                     FieldWeight(Head(comparisons).field_name),
                     WeightedScore(Tail(comparisons)))

RECURSIVE TotalWeight(_)
TotalWeight(comparisons) ==
    IF comparisons = <<>> THEN 0
    ELSE FieldWeight(Head(comparisons).field_name) + TotalWeight(Tail(comparisons))

\* total_weighted_score / total_weight
Weighted(score, total_weight) == Reduced(score.n, score.d * total_weight)

\* _calculate_overall_similarity
CalculateOverallSimilarity(comparisons) ==
    IF comparisons = <<>> THEN FracZero
    ELSE Weighted(WeightedScore(comparisons), TotalWeight(comparisons))

ExpectedFields ==
    {"vin", "year", "make", "model", "price", "mileage", "color", "dealer_name",
     "dealer_phone", "features", "images", "description"}

\* _calculate_coverage: the expected fields holding a meaningful value
CalculateCoverage(data) ==
    Frac(Cardinality({f \in ExpectedFields \cap DOMAIN data :
                         IF data[f].t = "str" THEN Strip(data[f].v) # <<>>
                         ELSE data[f].t \in {"list", "dict", "int"} /\ Truthy(data[f])}),
         Cardinality(ExpectedFields))

AnyRow(comparisons, p(_)) == \E i \in 1..Len(comparisons) : p(comparisons[i])

\* _generate_recommendations: which of the five recommendations are made
GenerateRecommendations(comparisons, mapping_result_, ai_result_) ==
    LET missing(c) == c.difference_type = "missing"
        different(c) == c.difference_type = "different"
        critical(c) == missing(c) /\ c.field_name \in {"vin", "price", "year", "make", "model"}
    IN  (IF AnyRow(comparisons, missing) THEN <<"missing">> ELSE <<>>)
        \o (IF AnyRow(comparisons, different) THEN <<"different">> ELSE <<>>)
        \o (IF mapping_result_.errors # <<>> THEN <<"errors">> ELSE <<>>)
        \o (IF FracLess(mapping_result_.confidence, Frac(1, 2)) THEN <<"low_confidence">>
            ELSE <<>>)
        \o (IF AnyRow(comparisons, critical) THEN <<"priority">> ELSE <<>>)

ComparisonResult(success, overall_similarity, field_comparisons, mapping_coverage, ai_coverage, recommendations, error) ==
    [success |-> success, overall_similarity |-> overall_similarity,
     field_comparisons |-> field_comparisons, mapping_coverage |-> mapping_coverage,
     ai_coverage |-> ai_coverage, recommendations |-> recommendations, error |-> error]

ComparisonFailed(error) ==
    ComparisonResult(FALSE, FracZero, <<>>, FracZero, FracZero, <<>>, PyStr(error))

\* the result built from the rows
Summarised(comparisons, mapping_result_, ai_result_) ==
    ComparisonResult(TRUE, CalculateOverallSimilarity(comparisons), comparisons,
                     CalculateCoverage(mapping_result_.extracted_data),
                     CalculateCoverage(ai_result_.extracted_data),
                     GenerateRecommendations(comparisons, mapping_result_, ai_result_),
                     None)

\* compare_results once the preview and the AI extraction have returned
CompareResults(mapping_result_, ai_result_) ==
    IF ~ai_result_.success THEN ComparisonFailed("AI extraction failed")
    ELSE Summarised(CompareFields(mapping_result_.extracted_data, ai_result_.extracted_data,
                                  mapping_result_.field_results),
                    mapping_result_, ai_result_)

(***************************************************************************)
(* POST /parse/mapped (parse_with_mapping)                                 *)
(***************************************************************************)
MappedParseRequest(source, site_id, doc, fallback_ai) ==
    [source |-> source, site_id |-> site_id, doc |-> doc, fallback_ai |-> fallback_ai]

HttpError(code) == [status |-> code]

MappedParseResponse(mr, confidence, ai_fallback_used, extracted_data) ==
    [status |-> 200, success |-> mr.success, mapping_used |-> mr.mapping_used,
     fields_mapped |-> mr.fields_mapped, fields_total |-> mr.fields_total,
     confidence |-> confidence, fallback_needed |-> mr.fallback_needed,
     ai_fallback_used |-> ai_fallback_used, extracted_data |-> extracted_data,
     errors |-> mr.errors]

\* the merge with the mapping taking precedence
MergeMappingFirst(mapping_data, ai_data) == DictMerge(ai_data, mapping_data)

\* {**mapping_result.extracted_data, **ai_result.extracted_data}
MergeExtracted(mapping_data, ai_data) == DictMerge(mapping_data, ai_data)

\* max(mapping_result.confidence, ai_result.confidence)
MergeConfidence(mapping_confidence, ai_confidence) ==
    FracMax(mapping_confidence, ai_confidence)

\* the request as the handler leaves it once the AI extractor has answered
ResponseAfterAI(mr, ai) ==
    IF ai.success
    THEN MappedParseResponse(mr, MergeConfidence(mr.confidence, ai.confidence), TRUE,
                             MergeExtracted(mr.extracted_data, ai.extracted_data))
    ELSE MappedParseResponse(mr, mr.confidence, FALSE, mr.extracted_data)

\* escalation on the request's flag alone
EscalatesOnRequest(request, mr) == request.fallback_ai

\* does the handler escalate to the AI extractor
EscalatesToAI(request, mr) == request.fallback_ai /\ mr.fallback_needed

\* a request is taken when the previous one has been answered
Ready == pc = "idle"

MpIdle == mp_req = None /\ mapping_result = None /\ mp_resp = None
AIIdle == ai_calls = 0 /\ ai_result = None /\ existing_data = None
GbIdle == trace = None /\ result_index = 0 /\ generic_result = None
StudioIdle ==
    /\ mapping_config = <<>>
    /\ html_content = None
    /\ preview_result = None
    /\ comparison_result = None

\* the request is refused before any resolution: neither or both of url
\* and html given (400), the page fetch failing (400) or raising (500)
ParseWithMappingRefused(source) ==
    /\ Ready
    /\ source \in {"neither", "both", "url_fetch_failed", "url_fetch_raised"}
    /\ op' = "parse_with_mapping"
    /\ pc' = "done"
    /\ mp_req' = MappedParseRequest(source, "nosite", UnparsableDoc, FALSE)
    /\ mapping_result' = None
    /\ mp_resp' = HttpError(IF source = "url_fetch_raised" THEN 500 ELSE 400)
    /\ UNCHANGED <<loaded_mappings, ai_vars, gb_vars, studio_vars, aux_vars>>

\* the handler after mapper.extract_from_html returned mr
Resolve(request, mr) ==
    /\ mp_req' = request
    /\ mapping_result' = mr
    /\ IF EscalatesToAI(request, mr)
       THEN pc' = "ai_call" /\ mp_resp' = None
       ELSE pc' = "done"
            /\ mp_resp' = MappedParseResponse(mr, mr.confidence, FALSE, mr.extracted_data)

\* the handler after ai_extractor.extract_from_html returned ai
Merge(ai) ==
    /\ ai_result' = ai
    /\ mp_resp' = ResponseAfterAI(mapping_result, ai)

\* the resolution pass, and the response when the AI is not called
ParseWithMappingResolve(source, site_id, doc, fallback_ai) ==
    /\ Ready
    /\ source \in {"html", "url"}
    /\ Resolve(MappedParseRequest(source, site_id, doc, fallback_ai),
               ExtractFromHtml(loaded_mappings, doc, site_id))
    /\ op' = "parse_with_mapping"
    /\ UNCHANGED <<loaded_mappings, ai_vars, gb_vars, studio_vars, aux_vars>>

\* the AI extractor answers; the handler merges and responds
ParseWithMappingAI(reply) ==
    /\ op = "parse_with_mapping"
    /\ pc = "ai_call"
    /\ Merge(AIExtractFromHtml(reply))
    /\ ai_calls' = ai_calls + 1
    /\ existing_data' = PyDict(mapping_result.extracted_data)
    /\ pc' = "done"
    /\ UNCHANGED <<loaded_mappings, op, mp_req, mapping_result, gb_vars, studio_vars,
                   aux_vars>>

(***************************************************************************)
(* GoalBuilderService.process_input                                        *)
(***************************************************************************)
MaxResults == 2

\* the outcomes of the page analysis of the generic parser
Pages ==
    {[kind |-> "raises"]}
        \cup {[kind |-> "data", data |-> HeuristicData(core \cup ident \cup extras),
               valid |-> valid] :
                 core \in SUBSET {"vin", "price", "make"},
                 ident \in {{}, {"model", "year"}},
                 extras \in {{}, {"mileage", "dealer_name", "images"}},
                 valid \in BOOLEAN}

\* what the cars.com parser returns for a page it can read
DomainResult ==
    ParseResult(TRUE,
                VehicleData(HeuristicData({"vin", "price", "make", "model", "year",
                                           "dealer_name"})),
                None, "domain-cars.com", Frac(9, 10))

\* a trace whose failure carries no error string
TraceWithoutError(tr) ==
    [tr EXCEPT !.parse_result = ParseResult(FALSE, None, None, "none", None)]

\* the except branch of process_input and of _fetch_and_parse
TraceOnError(tr) == [tr EXCEPT !.parse_result = ParseFailure("error", "none")]

\* the tail of _fetch_and_parse: the goal of a successful parse; a
\* successful result without vehicle data raises into the except branch
WithFinalGoal(tr) ==
    IF ~tr.parse_result.success THEN tr
    ELSE IF tr.parse_result.vehicle_data = None THEN TraceOnError(tr)
    ELSE [tr EXCEPT !.final_goal = PyDict(ToGoalJson(tr.parse_result.vehicle_data))]

Parsed(tr, parse_result) == WithFinalGoal([tr EXCEPT !.parse_result = parse_result])

\* generic_result.success and generic_result.confidence_score and
\* generic_result.confidence_score >= 0.7
ConfidentEnough(result) ==
    /\ result.success
    /\ result.confidence_score # None
    /\ result.confidence_score.n # 0
    /\ FracLeq(HeuristicThreshold, result.confidence_score)

\* the fallback that gives up the heuristic result when the AI fails
AIAssistedOrNothing(ai, generic) ==
    IF ai.success
    THEN ParseResult(TRUE, ToVehicleData(ai), None, "ai-assisted", ai.confidence)
    ELSE ParseFailure("AI extraction failed", "ai-assisted")

\* what _try_generic_and_ai_parsing returns once the AI extractor answered
AIAssisted(ai, generic) ==
    IF ai.success
    THEN WithRawData(ParseResult(TRUE, ToVehicleData(ai), None, "ai-assisted",
                                 ai.confidence),
                     ai.extracted_data)
    ELSE generic

\* the call without the data already extracted
NoExistingData(generic) == PyDict(EmptyDict)

\* generic_result.raw_extracted_data if generic_result.raw_extracted_data else {}
ExistingData(generic) ==
    IF Truthy(generic.raw_extracted_data) THEN generic.raw_extracted_data
    ELSE PyDict(EmptyDict)

\* the loop without the break: every search result is tried
ReturnedTryingAll(tr) ==
    /\ trace' = tr
    /\ IF tr.input_type = "vin" /\ result_index < tr.search_results
       THEN pc' = "fetch" /\ result_index' = result_index + 1
       ELSE pc' = "done" /\ result_index' = result_index

\* _fetch_and_parse returned tr: process_input returns it, unless the loop
\* over the search results has a next result to try
Returned(tr) ==
    /\ trace' = tr
    /\ IF tr.input_type = "vin" /\ ~tr.parse_result.success
          /\ result_index < tr.search_results
       THEN pc' = "fetch" /\ result_index' = result_index + 1
       ELSE pc' = "done" /\ result_index' = result_index

\* _fetch_and_parse up to its return or to the call of the AI extractor
Fetched(tr, fetch, domain, generic) ==
    IF fetch = "raises"
    THEN Returned(TraceOnError(tr)) /\ generic_result' = None
    ELSE IF fetch = "failed"
    THEN /\ Returned([tr EXCEPT !.fetch_success = FALSE, !.fetch_error = PyStr("error"),
                                !.parse_result = ParseFailure("DOM fetch failed", "none")])
         /\ generic_result' = None
    ELSE IF domain = "known_data"
    THEN /\ Returned(Parsed([tr EXCEPT !.fetch_success = TRUE], DomainResult))
         /\ generic_result' = None
    ELSE IF ConfidentEnough(generic)
    THEN /\ Returned(Parsed([tr EXCEPT !.fetch_success = TRUE], generic))
         /\ generic_result' = generic
    ELSE /\ trace' = [tr EXCEPT !.fetch_success = TRUE]
         /\ generic_result' = generic
         /\ pc' = "gb_ai"
         /\ result_index' = result_index

\* an input type that is neither 'vin' nor 'url'
ProcessInputUnsupported ==
    /\ Ready
    /\ op' = "process_input"
    /\ pc' = "done"
    /\ trace' = TraceOnError(SearchTrace("other"))
    /\ UNCHANGED <<result_index, generic_result>>
    /\ UNCHANGED <<loaded_mappings, mp_vars, ai_vars, studio_vars, aux_vars>>

\* a URL input: the URL is the one page to fetch
ProcessInputUrl ==
    /\ Ready
    /\ op' = "process_input"
    /\ pc' = "fetch"
    /\ trace' = SearchTrace("url")
    /\ UNCHANGED <<result_index, generic_result>>
    /\ UNCHANGED <<loaded_mappings, mp_vars, ai_vars, studio_vars, aux_vars>>

\* a VIN input whose search raises: an invalid VIN, or the search engine
\* failing
ProcessInputVinSearchRaises ==
    /\ Ready
    /\ op' = "process_input"
    /\ pc' = "done"
    /\ trace' = [SearchTrace("vin") EXCEPT
                    !.parse_result = ParseFailure("error", "vin_search")]
    /\ UNCHANGED <<result_index, generic_result>>
    /\ UNCHANGED <<loaded_mappings, mp_vars, ai_vars, studio_vars, aux_vars>>

\* a VIN input whose search returned the given number of results
ProcessInputVin(search) ==
    /\ Ready
    /\ op' = "process_input"
    /\ IF search = 0
       THEN /\ trace' = [SearchTrace("vin") EXCEPT
                            !.parse_result = ParseFailure("No search results", "search")]
            /\ pc' = "done" /\ result_index' = 0
       ELSE /\ trace' = [SearchTrace("vin") EXCEPT !.search_results = search]
            /\ pc' = "fetch" /\ result_index' = 1
    /\ UNCHANGED generic_result
    /\ UNCHANGED <<loaded_mappings, mp_vars, ai_vars, studio_vars, aux_vars>>

\* the selected page is fetched and parsed without the AI extractor;
\* selected_url is kept as the rank of the search result, 0 for a URL input;
\* the AI result of an earlier candidate is a local of the call that ended
FetchAndParse(fetch, domain, page) ==
    /\ op = "process_input"
    /\ pc = "fetch"
    /\ Fetched([trace EXCEPT !.selected_url = PyInt(result_index)], fetch, domain,
               GenericParse(page))
    /\ attempts' = Append(attempts, result_index)
    /\ ai_result' = None
    /\ existing_data' = None
    /\ UNCHANGED <<submits, case_creation>>
    /\ UNCHANGED <<loaded_mappings, op, mp_vars, ai_calls, studio_vars, side_vars>>

\* the handler after the AI extractor returned ai
Assisted(ai) ==
    /\ ai_result' = ai
    /\ Returned(Parsed(trace, AIAssisted(ai, generic_result)))

\* the AI extractor answers in _try_generic_and_ai_parsing
GoalBuilderAI(reply) ==
    /\ op = "process_input"
    /\ pc = "gb_ai"
    /\ Assisted(AIExtractFromHtml(reply))
    /\ ai_calls' = ai_calls + 1
    /\ existing_data' = ExistingData(generic_result)
    /\ UNCHANGED <<loaded_mappings, op, generic_result, mp_vars, studio_vars, norm_vars,
                   cmp_vars, suggest_vars, shared_vars, more_vars>>

\* what create_case returns: the API answered 200, or another status, or
\* the request raised
CaseResponses == {"200", "500", "raises"}

CaseResult(response) ==
    CASE response = "200" -> [success |-> TRUE, error |-> "none"]
      [] response = "500" -> [success |-> FALSE, error |-> "API request failed with status"]
      [] OTHER -> [success |-> FALSE, error |-> "API request failed"]

\* result['case_creation'] when trace.final_goal is falsy
NoGoalData == [success |-> FALSE, error |-> "No valid goal data extracted from input"]

\* the condition that submits whatever the trace holds
HasTrace(tr) == TRUE

\* if trace.final_goal:
HasGoal(tr) == Truthy(tr.final_goal)

\* process_and_create_case after process_input returned the trace
CreateCase(response) ==
    /\ op = "process_input"
    /\ pc = "done"
    /\ case_creation = None
    /\ IF HasGoal(trace)
       THEN submits' = submits + 1 /\ case_creation' = CaseResult(response)
       ELSE submits' = submits /\ case_creation' = NoGoalData
    /\ UNCHANGED attempts
    /\ UNCHANGED <<loaded_mappings, op, pc, mp_vars, ai_vars, gb_vars, studio_vars, side_vars>>

(***************************************************************************)
(* The studio entry points                                                 *)
(***************************************************************************)
\* StudioMapper.preview_mapping
PreviewMappingCall(config, doc) ==
    /\ Ready
    /\ op' = "preview_mapping"
    /\ pc' = "done"
    /\ mapping_config' = config
    /\ html_content' = doc
    /\ preview_result' = PreviewMapping(config, doc)
    /\ UNCHANGED comparison_result
    /\ UNCHANGED <<loaded_mappings, mp_vars, ai_vars, gb_vars, aux_vars>>

\* the handler after the preview and the AI extraction returned
Reconcile(mapping_result_, ai_result_) ==
    /\ preview_result' = mapping_result_
    /\ ai_result' = ai_result_
    /\ comparison_result' = CompareResults(mapping_result_, ai_result_)

\* ResultComparator.compare_results
CompareResultsCall(config, doc, reply) ==
    /\ Ready
    /\ op' = "compare_results"
    /\ pc' = "done"
    /\ mapping_config' = config
    /\ html_content' = doc
    /\ Reconcile(PreviewMapping(config, doc), AIExtractFromHtml(reply))
    /\ ai_calls' = ai_calls + 1
    /\ existing_data' = None
    /\ UNCHANGED <<loaded_mappings, mp_vars, gb_vars, aux_vars>>

\* the result has been returned; the service waits for the next call
Finish ==
    /\ pc = "done"
    /\ op' = "none"
    /\ pc' = "idle"
    /\ mp_req' = None /\ mapping_result' = None /\ mp_resp' = None
    /\ ai_calls' = 0 /\ ai_result' = None /\ existing_data' = None
    /\ trace' = None /\ result_index' = 0 /\ generic_result' = None
    /\ mapping_config' = <<>> /\ html_content' = None
    /\ preview_result' = None /\ comparison_result' = None
    /\ attempts' = <<>> /\ submits' = 0 /\ case_creation' = None
    /\ UNCHANGED <<loaded_mappings, side_vars>>

NormIdle ==
    /\ norm_pc = "off"
    /\ norm_impl = "studio"
    /\ norm_field = "price"
    /\ norm_in = <<>>
    /\ norm_once = None
    /\ norm_twice = None

CmpIdle == cmp_pc = "off" /\ value1 = None /\ value2 = None /\ similarity = None

SuggestIdle == suggest_pc = "off" /\ soup = <<>> /\ ai_analysis = None /\ suggestions = <<>>

SharedIdle == calls = <<>> /\ frames = <<>> /\ mapper_info = None

VinIdle == vin_pc = "off" /\ vin = None /\ is_valid = FALSE

PriceIdle == price_pc = "off" /\ page_text = <<>> /\ price = None

TestIdle == test_pc = "off" /\ test_site = "" /\ test_urls = <<>> /\ fetches = <<>> /\ test_results = <<>> /\ test_response = None

CaseIdle == attempts = <<>> /\ submits = 0 /\ case_creation = None

MoreIdle == VinIdle /\ PriceIdle /\ TestIdle /\ CaseIdle

Init ==
    /\ loaded_mappings = Registry
    /\ op = "none"
    /\ pc = "idle"
    /\ MpIdle /\ AIIdle /\ GbIdle /\ StudioIdle
    /\ NormIdle /\ CmpIdle /\ SuggestIdle /\ SharedIdle /\ MoreIdle

\* each request is taken in the position its handler waits in
Next ==
    \/ /\ Ready
       /\ \E source \in {"neither", "both", "url_fetch_failed", "url_fetch_raised"} :
              ParseWithMappingRefused(source)
    \/ /\ Ready
       /\ \E source \in {"html", "url"}, site_id \in SiteIds, doc \in Docs,
             fallback_ai \in BOOLEAN :
              ParseWithMappingResolve(source, site_id, doc, fallback_ai)
    \/ /\ pc = "ai_call"
       /\ \E reply \in AIReplies : ParseWithMappingAI(reply)
    \/ ProcessInputUnsupported
    \/ ProcessInputUrl
    \/ ProcessInputVinSearchRaises
    \/ /\ Ready
       /\ \E search \in 0..MaxResults : ProcessInputVin(search)
    \/ /\ pc = "fetch"
       /\ \E fetch \in {"raises", "failed", "ok"},
             domain \in {"known_data", "known_none", "known_raises", "unknown"},
             page \in Pages :
              FetchAndParse(fetch, domain, page)
    \/ /\ pc = "gb_ai"
       /\ \E reply \in AIReplies : GoalBuilderAI(reply)
    \/ /\ pc = "done"
       /\ \E response \in CaseResponses : CreateCase(response)
    \/ /\ Ready
       /\ \E site_id \in DOMAIN Registry, doc \in Docs :
              PreviewMappingCall(Registry[site_id], doc)
    \/ /\ Ready
       /\ \E site_id \in DOMAIN Registry, doc \in Docs, reply \in AIReplies :
              CompareResultsCall(Registry[site_id], doc, reply)
    \/ Finish

Spec == Init /\ [][Next]_vars

(***************************************************************************)
(* Inputs of the normaliser specification                                  *)
(***************************************************************************)
MaxTextLen == 3

NormAlphabet == {"$", ",", " ", "<", ">", "0", "1", "a"}

RECURSIVE TextsUpTo(_, _)
TextsUpTo(alphabet, n) ==
    IF n = 0 THEN {<<>>}
    ELSE LET shorter == TextsUpTo(alphabet, n - 1)
         IN  shorter \cup {Append(s, c) : s \in {x \in shorter : Len(x) = n - 1},
                                          c \in alphabet}

SampleTexts ==
    { <<"$", "3", "1", ",", "6", "5", "0">>,
      <<"<", "b", ">", "$", "3", "1", ",", "6", "5", "0", "<", "/", "b", ">">>,
      <<"P", "r", "i", "c", "e", " ", "5">>,
      <<"1", "2", ",", "3", "4", "5", " ", "m", "i">>,
      <<"2", "0", "1", "9", " ", "a">>,
      <<"$", "0">>,
      <<"a", "\n", " ", "a">> }

NormTexts == TextsUpTo(NormAlphabet, MaxTextLen) \cup SampleTexts

NormFields == {"price", "mileage", "year", "color"}

NormImpls == {"studio", "goal"}

\* Normalize(f, x) of the two normalisers used by resolution
Normalize(impl, f, x) ==
    IF impl = "studio" THEN CleanExtractedValue(x, f) ELSE CleanText(x)

(***************************************************************************)
(* Normaliser specification: draw an input, normalise, normalise again     *)
(***************************************************************************)
InitNorm ==
    /\ loaded_mappings = Registry
    /\ op = "normalize"
    /\ pc = "idle"
    /\ MpIdle /\ AIIdle /\ GbIdle /\ StudioIdle /\ CmpIdle /\ SuggestIdle /\ SharedIdle /\ MoreIdle
    /\ norm_pc = "input"
    /\ norm_impl \in NormImpls
    /\ norm_field \in NormFields
    /\ norm_in \in NormTexts
    /\ norm_once = None
    /\ norm_twice = None

NormalizeOnce ==
    /\ norm_pc = "input"
    /\ norm_once' = Normalize(norm_impl, norm_field, PyStr(norm_in))
    /\ norm_pc' = "once"
    /\ UNCHANGED <<norm_impl, norm_field, norm_in, norm_twice>>
    /\ UNCHANGED <<loaded_mappings, op, pc, mp_vars, ai_vars, gb_vars, studio_vars, cmp_vars, suggest_vars, shared_vars, more_vars>>

NormalizeTwice ==
    /\ norm_pc = "once"
    /\ norm_twice' = Normalize(norm_impl, norm_field, norm_once)
    /\ norm_pc' = "twice"
    /\ UNCHANGED <<norm_impl, norm_field, norm_in, norm_once>>
    /\ UNCHANGED <<loaded_mappings, op, pc, mp_vars, ai_vars, gb_vars, studio_vars, cmp_vars, suggest_vars, shared_vars, more_vars>>

NextNorm == NormalizeOnce \/ NormalizeTwice

SpecNorm == InitNorm /\ [][NextNorm]_vars

(***************************************************************************)
(* Inputs of the comparator specification                                  *)
(***************************************************************************)
MaxCmpLen == 2

CmpAlphabet == {"$", ",", " ", "0", "1", "a"}

CmpSamples ==
    { PyInt(31650), PyInt(0),
      PyStr(<<"3", "1", ",", "6", "5", "0">>),
      PyStr(<<"$", "3", "1", ",", "6", "5", "0">>),
      PyStr(<<"$", "1", "0", "0">>),
      PyStr(<<"2", "0", "0">>),
      PyStr(<<"H", "o", "n", "d", "a">>),
      PyStr(<<" ", "h", "o", "n", "d", "a", " ">>),
      PyStr(<<"t", "i", "d", "e">>),
      PyStr(<<"d", "i", "e", "t">>),
      PyStr(<<"$", ",", "a">>),
      PyStr(<<"a", "$", "a">>),
      PyStr(<<"-", "5">>),
      PyStr(<<"-", "3">>),
      PyStr(<<"-">>),
      None }

CmpValues == {PyStr(text) : text \in TextsUpTo(CmpAlphabet, MaxCmpLen)} \cup CmpSamples

(***************************************************************************)
(* Comparator specification: draw two values, compare them                 *)
(***************************************************************************)
InitCmp ==
    /\ loaded_mappings = Registry
    /\ op = "compare"
    /\ pc = "idle"
    /\ MpIdle /\ AIIdle /\ GbIdle /\ StudioIdle /\ NormIdle /\ SuggestIdle /\ SharedIdle /\ MoreIdle
    /\ cmp_pc = "input"
    /\ value1 \in CmpValues
    /\ value2 \in CmpValues
    /\ similarity = None

Compare ==
    /\ cmp_pc = "input"
    /\ similarity' = CalculateFieldSimilarity(value1, value2)
    /\ cmp_pc' = "compared"
    /\ UNCHANGED <<value1, value2>>
    /\ UNCHANGED <<loaded_mappings, op, pc, mp_vars, ai_vars, gb_vars, studio_vars, norm_vars, suggest_vars, shared_vars, more_vars>>

NextCmp == Compare

SpecCmp == InitCmp /\ [][NextCmp]_vars

(***************************************************************************)
(* AISelectorSuggester: selector suggestions for one goal field            *)
(*                                                                         *)
(* The page is the ordered list of its elements.  An element carries its   *)
(* id and class ("" when absent), the name of a data attribute ("" when    *)
(* absent), the tag path that addresses it and its text.  The regular      *)
(* expression searches are tabulated over the texts and names of the model.*)
(***************************************************************************)
SoupElement(id, class, data, path, text) ==
    [id |-> id, class |-> class, data |-> data, path |-> path, text |-> text]

Vin1 == "1HGCM82633A123456"
Vin2 == "2HGFA16578H000001"

\* goal_fields["vin"]: the pattern and the keywords of the field
GoalFields ==
    [vin |-> [pattern |-> "[A-HJ-NPR-Z0-9]{17}",
              keywords |-> <<"vin", "vehicle identification">>]]

\* regex.search(text) for the pattern of the vin field
MatchesPattern(pattern, text) ==
    /\ pattern = "[A-HJ-NPR-Z0-9]{17}"
    /\ text \in {Vin1, Vin2, "VIN " \o Vin1}

\* re.compile(re.escape(value)).search(text)
ContainsValue(text, value) ==
    \/ text = value
    \/ text = "VIN " \o Vin1 /\ value \in {Vin1, "VIN"}
    \/ text = "VIN" \o ":" /\ value = "VIN"

\* re.compile(keyword, re.IGNORECASE).search(name)
KeywordIn(keyword, name) ==
    /\ keyword = "vin"
    /\ name \in {"vin", "vin-box", "vin-id", "vin-label", "data-vin"}

SelectorSuggestion(field_name, selector, selector_type, confidence, reasoning) ==
    [field_name |-> field_name, selector |-> selector,
     selector_type |-> selector_type, confidence |-> confidence,
     reasoning |-> reasoning]

\* _generate_css_selector: the id, else the classes, else the tag path
GenerateCssSelector(element) ==
    IF element.id # "" THEN "#" \o element.id
    ELSE IF element.class # "" THEN "." \o element.class
    ELSE element.path

\* elements[:n]
FirstN(seq, n) == SubSeq(seq, 1, IF Len(seq) < n THEN Len(seq) ELSE n)

\* one suggestion per element of a list, in order
RECURSIVE SuggestEach(_, _, _, _, _)
SuggestEach(field_name, elements, by_id, confidence, reasoning) ==
    IF elements = <<>> THEN <<>>
    ELSE LET element == Head(elements)
             selector == IF by_id THEN "#" \o element.id
                         ELSE GenerateCssSelector(element)
         IN  <<SelectorSuggestion(field_name, selector, "css", confidence, reasoning)>>
                 \o SuggestEach(field_name, Tail(elements), by_id, confidence, reasoning)

\* _pattern_based_suggestions: every text node matching the field's pattern
PatternBasedSuggestions(field_name, field_info, page) ==
    IF "pattern" \notin DOMAIN field_info THEN <<>>
    ELSE SuggestEach(field_name,
                     SelectSeq(page, LAMBDA e : MatchesPattern(field_info.pattern, e.text)),
                     FALSE, Frac(8, 10), "pattern")

\* _ai_guided_suggestions: the first two text nodes holding the AI's value
AIGuidedSuggestions(field_name, page, analysis) ==
    LET ai_data == analysis.extracted_data
    IN  IF field_name \notin DOMAIN ai_data THEN <<>>
        ELSE SuggestEach(field_name,
                         FirstN(SelectSeq(page, LAMBDA e :
                                    ContainsValue(e.text, ai_data[field_name])), 2),
                         FALSE, Frac(9, 10), "ai")

\* the three attribute searches of _keyword_based_suggestions for one keyword
KeywordSuggestions(field_name, keyword, page) ==
    SuggestEach(field_name,
                FirstN(SelectSeq(page, LAMBDA e : KeywordIn(keyword, e.class)), 2),
                FALSE, Frac(6, 10), "class")
      \o SuggestEach(field_name,
                     FirstN(SelectSeq(page, LAMBDA e : KeywordIn(keyword, e.id)), 2),
                     TRUE, Frac(7, 10), "id")
      \o SuggestEach(field_name,
                     FirstN(SelectSeq(page, LAMBDA e : KeywordIn(keyword, e.data)), 2),
                     FALSE, Frac(8, 10), "data")

\* _keyword_based_suggestions: keyword by keyword
RECURSIVE KeywordBasedSuggestions(_, _, _)
KeywordBasedSuggestions(field_name, keywords, page) ==
    IF keywords = <<>> THEN <<>>
    ELSE KeywordSuggestions(field_name, Head(keywords), page)
             \o KeywordBasedSuggestions(field_name, Tail(keywords), page)

\* the deduplication key of a suggestion
SelectorKey(suggestion) == <<suggestion.selector, suggestion.selector_type>>

\* the loop of _dedupe_and_rank_suggestions: the first suggestion of every
\* key is kept
RECURSIVE UniqueSuggestions(_, _)
UniqueSuggestions(candidates, seen_selectors) ==
    IF candidates = <<>> THEN <<>>
    ELSE LET suggestion == Head(candidates)
         IN  IF SelectorKey(suggestion) \in seen_selectors
             THEN UniqueSuggestions(Tail(candidates), seen_selectors)
             ELSE <<suggestion>>
                      \o UniqueSuggestions(Tail(candidates),
                                           seen_selectors \cup {SelectorKey(suggestion)})

\* list.sort(key=confidence, reverse=True) is stable: a suggestion goes
\* behind everything at least as confident as itself
RECURSIVE InsertRanked(_, _)
InsertRanked(ranked, suggestion) ==
    IF ranked = <<>> THEN <<suggestion>>
    ELSE IF FracLess(Head(ranked).confidence, suggestion.confidence)
         THEN <<suggestion>> \o ranked
         ELSE <<Head(ranked)>> \o InsertRanked(Tail(ranked), suggestion)

\* the list left in the order the strategies produced it
KeepCollectedOrder(unsorted, ranked) == ranked \o unsorted

RECURSIVE SortByConfidence(_, _)
SortByConfidence(unsorted, ranked) ==
    IF unsorted = <<>> THEN ranked
    ELSE SortByConfidence(Tail(unsorted), InsertRanked(ranked, Head(unsorted)))

\* _dedupe_and_rank_suggestions
DedupeAndRankSuggestions(candidates) ==
    SortByConfidence(UniqueSuggestions(candidates, {}), <<>>)

\* the candidates of the three strategies in the order they are collected
CollectSuggestions(field_name, field_info, page, analysis) ==
    PatternBasedSuggestions(field_name, field_info, page)
      \o (IF analysis # None /\ DOMAIN analysis.extracted_data # {}
          THEN AIGuidedSuggestions(field_name, page, analysis)
          ELSE <<>>)
      \o KeywordBasedSuggestions(field_name, field_info.keywords, page)

MaxSuggestions == 3

\* _suggest_field_selectors
SuggestFieldSelectors(field_name, page, analysis) ==
    FirstN(DedupeAndRankSuggestions(
               CollectSuggestions(field_name, GoalFields[field_name], page, analysis)),
           MaxSuggestions)

(***************************************************************************)
(* Inputs of the suggester specification                                   *)
(***************************************************************************)
MaxElements == 4

SoupElements ==
    { SoupElement("vin-box", "", "", "div > span", Vin1),
      SoupElement("", "vin", "", "div > p", "VIN " \o Vin1),
      SoupElement("", "", "", "div > span", Vin2),
      SoupElement("", "spec", "data-vin", "div > td", "VIN" \o ":"),
      SoupElement("", "vin-label", "", "div > b", "VIN" \o ":"),
      SoupElement("vin-box", "vin", "", "div > span", Vin2),
      SoupElement("", "", "", "ul > li", Vin1),
      SoupElement("vin-id", "", "", "div > i", "VIN" \o ":") }

Soups == TextsUpTo(SoupElements, MaxElements)

AIAnalyses ==
    { None,
      [extracted_data |-> [k \in {"vin"} |-> Vin1]],
      [extracted_data |-> [k \in {"vin"} |-> Vin2]],
      [extracted_data |-> [k \in {"vin"} |-> "VIN"]],
      [extracted_data |-> [k \in {"make"} |-> "Honda"]] }

(***************************************************************************)
(* Suggester specification: draw a page and an analysis, suggest           *)
(***************************************************************************)
InitSuggest ==
    /\ loaded_mappings = Registry
    /\ op = "suggest"
    /\ pc = "idle"
    /\ MpIdle /\ AIIdle /\ GbIdle /\ StudioIdle /\ NormIdle /\ CmpIdle /\ SharedIdle /\ MoreIdle
    /\ suggest_pc = "input"
    /\ soup \in Soups
    /\ ai_analysis \in AIAnalyses
    /\ suggestions = <<>>

SuggestSelectors ==
    /\ suggest_pc = "input"
    /\ suggestions' = SuggestFieldSelectors("vin", soup, ai_analysis)
    /\ suggest_pc' = "suggested"
    /\ UNCHANGED <<soup, ai_analysis>>
    /\ UNCHANGED <<loaded_mappings, op, pc, mp_vars, ai_vars, gb_vars, studio_vars,
                   norm_vars, cmp_vars, shared_vars, more_vars>>

NextSuggest == SuggestSelectors

SpecSuggest == InitSuggest /\ [][NextSuggest]_vars

(***************************************************************************)
(* One GoalMapper shared by concurrent callers.  Each caller's             *)
(* extract_from_html runs on its own arguments and locals and advances one *)
(* field at a time; the registry queries read the same registry.           *)
(***************************************************************************)
Callers == {1, 2}

SharedSites == {"site2", "clash", "nosite"}

SharedDocs ==
    {Page(Keep(AllElements, names)) : names \in {{"vin"}, {"dealer"}, {"vin", "dealer"}}}
        \cup {UnparsableDoc}

\* the locals of a call: its position, the loop index and the accumulators,
\* and the MappingResult once it has returned
Frame(position, i, acc, result) ==
    [pc |-> position, i |-> i, acc |-> acc, result |-> result]

\* extracted_data = {}, errors = [], fields_mapped = 0
EmptyAcc == [extracted_data |-> EmptyDict, errors |-> <<>>, fields_mapped |-> 0]

NoFrame == Frame("idle", 0, EmptyAcc, None)

Returning(result) == Frame("done", 0, EmptyAcc, result)

\* all callers running in the locals of the first one
SharedFrame(all_frames, c) == all_frames[1]

\* the locals a caller's extract_from_html runs in: its own
OwnFrame(all_frames, c) == all_frames[c]

\* extract_from_html up to the field loop: the two early returns, or the
\* loop entered with empty accumulators
Entered(registry, site_id, doc) ==
    IF site_id \notin DOMAIN registry \/ ~doc.parsable
    THEN Returning(ExtractFromHtml(registry, doc, site_id))
    ELSE Frame("loop", 1, EmptyAcc, None)

\* one iteration of the field loop on the mapping the registry holds
Iterated(frame, mapping, doc) ==
    Frame("loop", frame.i + 1,
          MapField(frame.acc, mapping[frame.i].key,
                   ExtractFieldValue(mapping[frame.i].rule, doc)),
          None)

\* get_mapping_info
GetMappingInfo(registry, site_id) ==
    IF site_id \notin DOMAIN registry THEN None
    ELSE [site_id |-> site_id,
          fields |-> [i \in DOMAIN registry[site_id] |-> registry[site_id][i].key],
          field_count |-> Len(registry[site_id]),
          validation |-> ValidateMapping(registry, site_id)]

\* get_available_sites
GetAvailableSites(registry) == [sites |-> DOMAIN registry]

InitShared ==
    /\ loaded_mappings = Registry
    /\ op = "shared"
    /\ pc = "idle"
    /\ MpIdle /\ AIIdle /\ GbIdle /\ StudioIdle /\ NormIdle /\ CmpIdle /\ SuggestIdle /\ MoreIdle
    /\ calls = [c \in Callers |-> None]
    /\ frames = [c \in Callers |-> NoFrame]
    /\ mapper_info = None

SharedRest ==
    UNCHANGED <<loaded_mappings, op, pc, mp_vars, ai_vars, gb_vars, studio_vars,
                norm_vars, cmp_vars, suggest_vars, more_vars>>

\* a caller enters extract_from_html
EnterExtract(c, site_id, doc) ==
    /\ calls[c] = None
    /\ calls' = [calls EXCEPT ![c] = [site_id |-> site_id, doc |-> doc]]
    /\ frames' = [frames EXCEPT ![c] = Entered(loaded_mappings, site_id, doc)]
    /\ UNCHANGED mapper_info
    /\ SharedRest

\* a caller is in the field loop, over a mapping of the registry
InLoop(c) ==
    /\ calls[c] # None
    /\ calls[c].site_id \in DOMAIN loaded_mappings
    /\ OwnFrame(frames, c).pc = "loop"

\* a caller's loop processes its next field
IterateExtract(c) ==
    /\ InLoop(c)
    /\ OwnFrame(frames, c).i <= Len(loaded_mappings[calls[c].site_id])
    /\ frames' = [frames EXCEPT ![c] =
                      Iterated(OwnFrame(frames, c), loaded_mappings[calls[c].site_id],
                               calls[c].doc)]
    /\ UNCHANGED <<calls, mapper_info>>
    /\ SharedRest

\* a caller's loop is over: the MappingResult is built and returned
ReturnExtract(c) ==
    /\ InLoop(c)
    /\ OwnFrame(frames, c).i > Len(loaded_mappings[calls[c].site_id])
    /\ frames' = [frames EXCEPT ![c] =
                      Returning(Resolved(OwnFrame(frames, c).acc, calls[c].site_id,
                                         Len(loaded_mappings[calls[c].site_id])))]
    /\ UNCHANGED <<calls, mapper_info>>
    /\ SharedRest

ValidateMappingCall(site_id) ==
    /\ mapper_info' = ValidateMapping(loaded_mappings, site_id)
    /\ UNCHANGED <<calls, frames>>
    /\ SharedRest

GetMappingInfoCall(site_id) ==
    /\ mapper_info' = GetMappingInfo(loaded_mappings, site_id)
    /\ UNCHANGED <<calls, frames>>
    /\ SharedRest

GetAvailableSitesCall ==
    /\ mapper_info' = GetAvailableSites(loaded_mappings)
    /\ UNCHANGED <<calls, frames>>
    /\ SharedRest

NextShared ==
    \/ \E c \in Callers, site_id \in SharedSites, doc \in SharedDocs :
           EnterExtract(c, site_id, doc)
    \/ \E c \in Callers : IterateExtract(c)
    \/ \E c \in Callers : ReturnExtract(c)
    \/ \E site_id \in SharedSites : ValidateMappingCall(site_id)
    \/ \E site_id \in SharedSites : GetMappingInfoCall(site_id)
    \/ GetAvailableSitesCall

SpecShared == InitShared /\ [][NextShared]_vars

(***************************************************************************)
(* VINValidator.is_valid_vin                                               *)
(***************************************************************************)
\* str.upper() of one character
UpperChar(c) ==
    IF \E i \in 1..Len(LowerLetters) : LowerLetters[i] = c
    THEN UpperLetters[CHOOSE i \in 1..Len(LowerLetters) : LowerLetters[i] = c]
    ELSE c

Upper(s) == [i \in 1..Len(s) |-> UpperChar(s[i])]

\* {17} of VIN_PATTERN
VinLength == 17

\* the character class [A-HJ-NPR-Z0-9], read without regard to case
VinClass ==
    ({UpperLetters[i] : i \in 1..Len(UpperLetters)} \ {"I", "O", "Q"}) \cup Digits

InVinClass(c) == UpperChar(c) \in VinClass

\* the pattern with the three excluded letters admitted
MatchesAlnumPattern(s) ==
    LET AllAlnum(n) ==
            \A i \in 1..n :
                UpperChar(s[i]) \in VinClass \cup {"I", "O", "Q"}
    IN  \/ Len(s) = VinLength /\ AllAlnum(VinLength)
        \/ Len(s) = VinLength + 1 /\ s[VinLength + 1] = "\n" /\ AllAlnum(VinLength)

\* VIN_PATTERN.match(s) is not None: '^' and '$' anchor the seventeen
\* characters; '$' also matches just before a newline that ends the string
MatchesVinPattern(s) ==
    LET AllInClass(n) == \A i \in 1..n : InVinClass(s[i])
    IN  \/ Len(s) = VinLength /\ AllInClass(VinLength)
        \/ Len(s) = VinLength + 1 /\ s[VinLength + 1] = "\n" /\ AllInClass(VinLength)

\* is_valid_vin: a falsy or non-string argument is rejected; the rest is
\* stripped, upper-cased and matched
IsValidVin(x) ==
    IF ~Truthy(x) \/ x.t # "str" THEN FALSE
    ELSE MatchesVinPattern(Upper(Strip(x.v)))

(***************************************************************************)
(* Inputs of the VIN specification: prefixes and extensions of sample      *)
(* VINs, with one character replaced and whitespace around them            *)
(***************************************************************************)
MaxVinExtra == 2

SampleVins ==
    { <<"5", "T", "D", "G", "Z", "R", "B", "H", "X", "M", "S", "1", "0", "3", "0", "0", "5">>,
      <<"1", "h", "g", "c", "m", "8", "2", "6", "3", "3", "a", "1", "2", "3", "4", "5", "6">> }

VinReplacements == {"I", "i", "O", "o", "Q", "q", "A", "z", "0", "-", " ", "\n"}

VinPositions == {1, 9, VinLength}

VinPads == {<<>>, <<" ">>, <<"\n">>, <<"\t", " ">>}

\* the first n characters of the sample, continued with "7" beyond its end
Resized(sample, n) ==
    [i \in 1..n |-> IF i <= Len(sample) THEN sample[i] ELSE "7"]

Replaced(s, p, c) == IF p <= Len(s) THEN [s EXCEPT ![p] = c] ELSE s

VinTexts ==
    LET cores == {Resized(sample, n) : sample \in SampleVins,
                                       n \in 0..(VinLength + MaxVinExtra)}
        edited == cores \cup {Replaced(s, p, c) : s \in cores, p \in VinPositions,
                                                  c \in VinReplacements}
    IN  {l \o s \o r : l \in VinPads, s \in edited, r \in VinPads}

VinInputs ==
    {PyStr(s) : s \in VinTexts} \cup {None, PyInt(0), PyInt(12345), PyList(<<>>)}

InitVin ==
    /\ loaded_mappings = Registry
    /\ op = "is_valid_vin"
    /\ pc = "idle"
    /\ MpIdle /\ AIIdle /\ GbIdle /\ StudioIdle
    /\ NormIdle /\ CmpIdle /\ SuggestIdle /\ SharedIdle /\ PriceIdle /\ TestIdle
    /\ CaseIdle
    /\ vin_pc = "input"
    /\ vin \in VinInputs
    /\ is_valid = FALSE

ValidateVin ==
    /\ vin_pc = "input"
    /\ is_valid' = IsValidVin(vin)
    /\ vin_pc' = "validated"
    /\ UNCHANGED vin
    /\ UNCHANGED <<loaded_mappings, op, pc, mp_vars, ai_vars, gb_vars, studio_vars,
                   norm_vars, cmp_vars, suggest_vars, shared_vars, price_vars,
                   test_vars, case_vars>>

NextVin == ValidateVin

SpecVin == InitVin /\ [][NextVin]_vars

(***************************************************************************)
(* GenericParser._extract_price.  The page page_text is the ordered list of the *)
(* numbers it shows; a number carries the label written before it ("" when *)
(* none), whether a '$' stands before it, and its value with the commas    *)
(* removed.                                                                *)
(***************************************************************************)
Occurrence(label, dollar, amount) == [label |-> label, dollar |-> dollar, amount |-> amount]

\* price_patterns, in the order they are tried: '$' then the three labels
PricePatterns == <<"$", "Price", "MSRP", "Sale">>

\* the pattern matches at the occurrence: the first needs the '$', a label
\* pattern needs its label and takes the '$' when there is one
PatternMatches(pattern, occurrence) ==
    IF pattern = "$" THEN occurrence.dollar ELSE occurrence.label = pattern

\* 1000 <= price <= 200000
MinPrice == 1000
MaxPrice == 200000
Reasonable(amount) == MinPrice <= amount /\ amount <= MaxPrice

\* re.findall(pattern, page_text) filtered to the reasonable range, in page order
RECURSIVE FindAllReasonable(_, _)
FindAllReasonable(pattern, shown) ==
    IF shown = <<>> THEN <<>>
    ELSE (IF PatternMatches(pattern, Head(shown)) /\ Reasonable(Head(shown).amount)
          THEN <<Head(shown).amount>> ELSE <<>>)
             \o FindAllReasonable(pattern, Tail(shown))

\* the list `prices` after the loop over the patterns from pattern i on
RECURSIVE PricesFrom(_, _)
PricesFrom(i, shown) ==
    IF i > Len(PricePatterns) THEN <<>>
    ELSE FindAllReasonable(PricePatterns[i], shown) \o PricesFrom(i + 1, shown)

\* prices.count(p)
CountIn(prices, p) == Cardinality({i \in 1..Len(prices) : prices[i] = p})

\* the values max(set(prices), key=prices.count) can return: those with the
\* highest count; among them the iteration order of the set decides
MostCommon(prices) ==
    {p \in {prices[i] : i \in 1..Len(prices)} :
        \A i \in 1..Len(prices) : CountIn(prices, prices[i]) <= CountIn(prices, p)}

(***************************************************************************)
(* Inputs of the price specification                                       *)
(***************************************************************************)
MaxOccurrences == 3

PriceLabels == {"", "Price", "MSRP", "Sale"}

PriceAmounts == {999, 20000, 30000, 200001}

Occurrences ==
    {Occurrence(label, dollar, amount) :
        label \in PriceLabels, dollar \in BOOLEAN, amount \in PriceAmounts}

\* "MSRP: $45,000 MSRP: $45,000 $41,000 $41,000 $41,000" and pages at the
\* ends of the range
SamplePriceTexts ==
    { << Occurrence("MSRP", TRUE, 45000), Occurrence("MSRP", TRUE, 45000),
         Occurrence("", TRUE, 41000), Occurrence("", TRUE, 41000),
         Occurrence("", TRUE, 41000) >>,
      << Occurrence("", TRUE, 1000), Occurrence("Price", FALSE, 200000),
         Occurrence("Sale", FALSE, 200000), Occurrence("", TRUE, 1000) >> }

PriceTexts == TextsUpTo(Occurrences, MaxOccurrences) \cup SamplePriceTexts

InitPrice ==
    /\ loaded_mappings = Registry
    /\ op = "extract_price"
    /\ pc = "idle"
    /\ MpIdle /\ AIIdle /\ GbIdle /\ StudioIdle
    /\ NormIdle /\ CmpIdle /\ SuggestIdle /\ SharedIdle /\ VinIdle /\ TestIdle
    /\ CaseIdle
    /\ price_pc = "input"
    /\ page_text \in PriceTexts
    /\ price = None

\* _extract_price: None when no reasonable price was found
ExtractPrice ==
    /\ price_pc = "input"
    /\ IF PricesFrom(1, page_text) = <<>>
       THEN price' = None
       ELSE \E p \in MostCommon(PricesFrom(1, page_text)) : price' = PyInt(p)
    /\ price_pc' = "extracted"
    /\ UNCHANGED page_text
    /\ UNCHANGED <<loaded_mappings, op, pc, mp_vars, ai_vars, gb_vars, studio_vars,
                   norm_vars, cmp_vars, suggest_vars, shared_vars, vin_vars,
                   test_vars, case_vars>>

NextPrice == ExtractPrice

SpecPrice == InitPrice /\ [][NextPrice]_vars

(***************************************************************************)
(* Inputs of the reconciliation specification: a mapping over the vin, the *)
(* price, the mileage and the colour, pages and AI replies that show each  *)
(* of them or not, with colour texts that read as numbers                  *)
(***************************************************************************)
ReconcileConfigs ==
    { << FieldEntry(<<"vin">>, Sel("vin")), FieldEntry(<<"price">>, Sel("price")),
         FieldEntry(<<"mileage">>, Sel("mileage")), FieldEntry(<<"color">>, Sel("color")) >>,
      << FieldEntry(<<"color">>, Sel("color")) >> }

ReconcileElements(f) ==
    CASE f = "vin" -> {<<>>, <<Element("vin", VinText)>>}
      [] f = "price" -> {<<>>, <<Element("price", PriceText)>>}
      [] f = "mileage" -> {<<>>, <<Element("mileage", <<"1", "2", ",", "3", "4", "5">>)>>}
      [] f = "color" -> {<<>>, <<Element("color", <<"-", "5">>)>>,
                         <<Element("color", <<"r", "e", "d">>)>>}

ReconcileDocs ==
    {Page(v \o p \o m \o c) :
        v \in ReconcileElements("vin"), p \in ReconcileElements("price"),
        m \in ReconcileElements("mileage"), c \in ReconcileElements("color")}

ReconcileReplyData(vin_, price_, mileage_, color_) ==
    [f \in AICoreFields \cup AIImportantFields \cup AIDetailFields |->
        CASE f = "vin" -> vin_
          [] f = "price" -> price_
          [] f = "mileage" -> mileage_
          [] f = "color" -> color_
          [] OTHER -> None]

ReconcileReplies ==
    {[kind |-> "json", data |-> ReconcileReplyData(vin_, price_, mileage_, color_)] :
        vin_ \in {None, PyStr(<<" ", "1", "H", "G", "X">>)},
        price_ \in {None, PyStr(<<"$", "3", "1", ",", "7", "0", "0">>)},
        mileage_ \in {None, PyInt(12345)},
        color_ \in {None, PyStr(<<"-", "3">>), PyStr(<<"-", "5">>),
                    PyStr(<<"b", "l", "u", "e">>)}}

NextReconcile ==
    \/ /\ Ready
       /\ \E config \in ReconcileConfigs, doc \in ReconcileDocs,
             reply \in ReconcileReplies :
              CompareResultsCall(config, doc, reply)
    \/ Finish

SpecReconcile == Init /\ [][NextReconcile]_vars

(***************************************************************************)
(* The schema test run: mappingstudio/api/endpoints.py test_schema.  The   *)
(* run loads the stored schema, fetches and previews the first URLs of the *)
(* request one after the other and answers with the per-URL results.       *)
(***************************************************************************)
\* the slice bound of request.test_urls[:5]
MaxProbes == 5

\* the loop without the slice
EveryUrl(urls) == urls

\* request.test_urls[:5]
TestedUrls(urls) ==
    SubSeq(urls, 1, IF Len(urls) < MaxProbes THEN Len(urls) ELSE MaxProbes)

\* the entry appended when the page was fetched: preview_result.errors[:3]
TestEntry(url, previewed) ==
    [url |-> url, success |-> previewed.success,
     fields_extracted |-> previewed.successful_fields,
     total_fields |-> previewed.total_fields,
     confidence |-> previewed.confidence,
     errors |-> SubSeq(previewed.errors, 1,
                       IF Len(previewed.errors) < 3 THEN Len(previewed.errors) ELSE 3)]

\* the entry appended when the fetch failed, and the one of the except branch
TestFailure(url, error) == [url |-> url, success |-> FALSE, error |-> error]

\* one iteration of the loop, fetch_page having returned or raised
TestResult(url, schema_data, fetched) ==
    CASE fetched.kind = "raises" -> TestFailure(url, "exception")
      [] fetched.kind = "failed" -> TestFailure(url, "Failed to fetch")
      [] OTHER -> TestEntry(url, PreviewMapping(schema_data, fetched.html))

\* sum(1 for r in results if r.get("success", False))
SuccessfulTests(results) ==
    Cardinality({i \in DOMAIN results : results[i].success})

\* successful_tests / len(results) if results else 0.0
SuccessRate(results) ==
    IF results # <<>> THEN Frac(SuccessfulTests(results), Len(results)) ELSE FracZero

TestResponse(site_id, results) ==
    [success |-> TRUE, site_id |-> site_id, test_results |-> results,
     success_rate |-> SuccessRate(results), total_tests |-> Len(results)]

\* raise HTTPException(status_code=404, ...)
SchemaNotFound == [status_code |-> 404]

MaxUrls == 6
TestUrlNames == {"u1", "u2"}
TestSites == {"site2", "nosite"}
TestUrlLists == UNION {[1..n -> TestUrlNames] : n \in 0..MaxUrls}

\* what fetch_page does for a URL: it raises, reports a failure, or returns
\* a page with the vin element, or one the parser cannot read
TestFetches ==
    {[kind |-> "raises"], [kind |-> "failed"],
     [kind |-> "ok", html |-> Page(Keep(AllElements, {"vin"}))],
     [kind |-> "ok", html |-> UnparsableDoc]}

InitTest ==
    /\ loaded_mappings = Registry
    /\ op = "test_schema"
    /\ pc = "idle"
    /\ MpIdle /\ AIIdle /\ GbIdle /\ StudioIdle
    /\ NormIdle /\ CmpIdle /\ SuggestIdle /\ SharedIdle /\ VinIdle /\ PriceIdle
    /\ CaseIdle
    /\ test_pc = "request"
    /\ test_site \in TestSites
    /\ test_urls \in TestUrlLists
    /\ fetches = <<>>
    /\ test_results = <<>>
    /\ test_response = None

TestUnchanged ==
    UNCHANGED <<loaded_mappings, op, pc, mp_vars, ai_vars, gb_vars, studio_vars,
                norm_vars, cmp_vars, suggest_vars, shared_vars, vin_vars, price_vars,
                case_vars>>

\* the schema file does not exist
TestSchemaNotFound ==
    /\ test_pc = "request"
    /\ test_site \notin DOMAIN Registry
    /\ test_response' = SchemaNotFound
    /\ test_pc' = "done"
    /\ UNCHANGED <<test_site, test_urls, fetches, test_results>>
    /\ TestUnchanged

\* the schema was loaded; the loop starts
TestSchemaLoaded ==
    /\ test_pc = "request"
    /\ test_site \in DOMAIN Registry
    /\ test_pc' = "loop"
    /\ UNCHANGED <<test_site, test_urls, fetches, test_results, test_response>>
    /\ TestUnchanged

\* one iteration: the next URL is fetched and previewed
TestUrl(fetched) ==
    /\ test_pc = "loop"
    /\ Len(test_results) < Len(TestedUrls(test_urls))
    /\ LET url == TestedUrls(test_urls)[Len(test_results) + 1]
       IN /\ fetches' = Append(fetches, [url |-> url, kind |-> fetched.kind])
          /\ test_results' = Append(test_results,
                                    TestResult(url, Registry[test_site], fetched))
    /\ UNCHANGED <<test_pc, test_site, test_urls, test_response>>
    /\ TestUnchanged

\* the loop is over: the rate is computed and the response returned
TestReturn ==
    /\ test_pc = "loop"
    /\ Len(test_results) = Len(TestedUrls(test_urls))
    /\ test_response' = TestResponse(test_site, test_results)
    /\ test_pc' = "done"
    /\ UNCHANGED <<test_site, test_urls, fetches, test_results>>
    /\ TestUnchanged

NextTest ==
    \/ TestSchemaNotFound
    \/ TestSchemaLoaded
    \/ \E fetched \in TestFetches : TestUrl(fetched)
    \/ TestReturn

SpecTest == InitTest /\ [][NextTest]_vars

(***************************************************************************)
(* Properties                                                              *)
(***************************************************************************)
\* the mapped-parse request has been answered after a resolution pass
MappedDone == op = "parse_with_mapping" /\ pc = "done" /\ mapping_result # None

\* the AI extraction of the request succeeded, so its result was merged
AIMerged == ai_result # None /\ ai_result.success

\* C1: every MappingResult of GoalMapper.extract_from_html has
\* fallback_needed true exactly when confidence < 0.70 or fields_mapped < 3;
\* 7 of 10 fields does not ask for the fallback, 6 of 10 does.
FallbackIffBelowThresholds ==
    mapping_result # None =>
        /\ mapping_result.fallback_needed
              <=> \/ 10 * mapping_result.confidence.n < 7 * mapping_result.confidence.d
                  \/ mapping_result.fields_mapped < 3
        /\ (mapping_result.fields_total = 10 /\ mapping_result.fields_mapped = 7)
              => ~mapping_result.fallback_needed
        /\ (mapping_result.fields_total = 10 /\ mapping_result.fields_mapped = 6)
              => mapping_result.fallback_needed

\* a resolution of 7 of 10 fields, confidence exactly 0.70, without fallback
SevenOfTenResolved ==
    /\ mapping_result # None
    /\ mapping_result.fields_total = 10
    /\ mapping_result.fields_mapped = 7
    /\ mapping_result.confidence = Frac(7, 10)
    /\ ~mapping_result.fallback_needed

\* C2: when the AI extraction succeeds the merged data hold every AI key
\* with the AI's value, every mapping key the AI lacks with the mapping's
\* value, and no other key.
MergePrefersAI ==
    (MappedDone /\ AIMerged) =>
        /\ DOMAIN mp_resp.extracted_data
              = DOMAIN mapping_result.extracted_data \cup DOMAIN ai_result.extracted_data
        /\ \A k \in DOMAIN ai_result.extracted_data :
              mp_resp.extracted_data[k] = ai_result.extracted_data[k]
        /\ \A k \in DOMAIN mapping_result.extracted_data \ DOMAIN ai_result.extracted_data :
              mp_resp.extracted_data[k] = mapping_result.extracted_data[k]

\* the mapping found price 31650, the AI 31700, and the merge kept 31700
\* next to a mapping field the AI did not produce
PriceCollisionMerged ==
    /\ MappedDone /\ AIMerged
    /\ "price" \in DOMAIN mapping_result.extracted_data
    /\ "price" \in DOMAIN ai_result.extracted_data
    /\ mapping_result.extracted_data["price"] = PyInt(31650)
    /\ ai_result.extracted_data["price"] = PyInt(31700)
    /\ mp_resp.extracted_data["price"] = PyInt(31700)
    /\ DOMAIN mapping_result.extracted_data \ DOMAIN ai_result.extracted_data # {}

\* C3: a failed AI extraction leaves the request with the result it had:
\* the mapped-parse response carries the mapping's data and confidence with
\* ai_fallback_used false, and the URL pipeline returns the heuristic
\* ParseResult; the request is answered in both.
AIFailureKeepsResult ==
    (ai_result # None /\ ~ai_result.success) =>
        /\ op = "parse_with_mapping" =>
              /\ pc = "done"
              /\ mp_resp.status = 200
              /\ mp_resp.extracted_data = mapping_result.extracted_data
              /\ mp_resp.confidence = mapping_result.confidence
              /\ ~mp_resp.ai_fallback_used
        /\ op = "process_input" =>
              /\ pc \in {"fetch", "done"}
              /\ generic_result # None
              /\ trace.parse_result = generic_result

\* process_input returned the heuristic result after the AI extraction failed
HeuristicReturnedAfterAIFailure ==
    /\ op = "process_input"
    /\ pc = "done"
    /\ ai_calls = 1
    /\ ai_result # None /\ ~ai_result.success
    /\ trace.parse_result = generic_result
    /\ trace.parse_result.parser_used = "generic"

\* C4: in the mapped-parse pipeline the AI extractor is called at most once,
\* after the resolution pass and only when it asked for the fallback; when
\* it did not, the AI is never called and the response carries the
\* mapping's data and confidence.
AIOnlyOnFallback ==
    op = "parse_with_mapping" =>
        /\ ai_calls <= 1
        /\ (ai_calls = 1 \/ pc = "ai_call")
              => (mapping_result # None /\ mapping_result.fallback_needed)
        /\ (MappedDone /\ ~mapping_result.fallback_needed)
              => /\ ai_calls = 0
                 /\ ai_result = None
                 /\ mp_resp.extracted_data = mapping_result.extracted_data
                 /\ mp_resp.confidence = mapping_result.confidence
                 /\ ~mp_resp.ai_fallback_used

\* a request that allowed the fallback was answered without the AI because
\* the resolution did not need it
FallbackAllowedButNotNeeded ==
    /\ MappedDone
    /\ mp_req.fallback_ai
    /\ ~mapping_result.fallback_needed
    /\ ai_calls = 0
    /\ mp_resp.confidence = mapping_result.confidence

\* is x a result object of the entry points
IsResultObject(x) == x # None /\ "success" \in DOMAIN x /\ x.success \in BOOLEAN

\* C5: no failure leaves the entry points as an exception: process_input
\* returns a trace whose parse_result is set, a success or a failure with an
\* error string, and compare_results, extract_from_html and preview_mapping
\* return a result object.
NoExceptionCrossesBoundary ==
    /\ (op = "process_input" /\ pc = "done") =>
          /\ trace # None
          /\ IsResultObject(trace.parse_result)
          /\ trace.parse_result.success \/ trace.parse_result.error # None
    /\ (op = "parse_with_mapping" /\ pc = "done" /\ mp_req.source \in {"html", "url"}) =>
          IsResultObject(mapping_result)
    /\ (op = "preview_mapping" /\ pc = "done") => IsResultObject(preview_result)
    /\ (op = "compare_results" /\ pc = "done") => IsResultObject(comparison_result)

\* every candidate of a VIN search failed, the last one by its fetch
\* raising, and process_input returned the failure as data
AllCandidatesFailed ==
    /\ op = "process_input"
    /\ pc = "done"
    /\ trace.input_type = "vin"
    /\ trace.search_results = MaxResults
    /\ result_index = MaxResults
    /\ ~trace.fetch_success
    /\ trace.fetch_error = None
    /\ ~trace.parse_result.success
    /\ trace.parse_result.error # None

\* C6: a resolution over no fields, the schema being empty or the site
\* unknown, has confidence 0 and asks for the fallback.
EmptySchemaFallsBack ==
    (mapping_result # None /\ mapping_result.fields_total = 0) =>
        /\ mapping_result.confidence.n = 0
        /\ mapping_result.fallback_needed

\* the empty schema was resolved against a readable page
EmptySchemaResolved ==
    /\ mapping_result # None
    /\ mapping_result.mapping_used = "empty"
    /\ mp_req.doc.parsable
    /\ mapping_result.fields_total = 0
    /\ mapping_result.errors = <<>>
    /\ mapping_result.fallback_needed

\* confidence is mapped / total, and 0 for no fields
IsRatio(confidence, mapped, total) ==
    /\ 0 <= mapped /\ mapped <= total
    /\ confidence.d > 0
    /\ 0 <= confidence.n /\ confidence.n <= confidence.d
    /\ IF total = 0 THEN confidence.n = 0
       ELSE confidence.n * total = mapped * confidence.d

\* C7: confidence is fields_mapped / fields_total (0 for an empty schema),
\* fields_mapped <= fields_total and confidence is in [0,1]; 4 of 5 gives 0.8
\* without fallback and 2 of 5 gives 0.4 with fallback; GoalMapper counts
\* every schema key, preview_mapping leaves out the keys starting with '_'.
ConfidenceIsMappedOverTotal ==
    /\ mapping_result # None =>
          /\ IsRatio(mapping_result.confidence, mapping_result.fields_mapped,
                     mapping_result.fields_total)
          /\ (mapping_result.fields_total = 5 /\ mapping_result.fields_mapped = 4)
                => /\ mapping_result.confidence.n * 10 = 8 * mapping_result.confidence.d
                   /\ ~mapping_result.fallback_needed
          /\ (mapping_result.fields_total = 5 /\ mapping_result.fields_mapped = 2)
                => /\ mapping_result.confidence.n * 10 = 4 * mapping_result.confidence.d
                   /\ mapping_result.fallback_needed
          /\ mapping_result.mapping_used \in DOMAIN loaded_mappings
                => mapping_result.fields_total
                      = Len(loaded_mappings[mapping_result.mapping_used])
    /\ preview_result # None =>
          /\ IsRatio(preview_result.confidence, preview_result.successful_fields,
                     preview_result.total_fields)
          /\ preview_result # PreviewFailed
                => preview_result.total_fields
                      = Cardinality({i \in 1..Len(mapping_config) :
                                        ~IsPrivate(mapping_config[i].key)})

\* 4 of the 5 fields of a schema resolved: confidence 0.8, no fallback
FourOfFiveResolved ==
    /\ mapping_result # None
    /\ mapping_result.fields_total = 5
    /\ mapping_result.fields_mapped = 4
    /\ mapping_result.confidence = Frac(4, 5)
    /\ ~mapping_result.fallback_needed

\* C8: the confidence of the response is max(mapping confidence, AI
\* confidence) when the AI result was merged and the mapping confidence
\* otherwise; it is never below the mapping confidence and is in [0,1].
FinalConfidenceIsMax ==
    MappedDone =>
        /\ IF AIMerged
           THEN /\ mp_resp.ai_fallback_used
                /\ FracLeq(ai_result.confidence, mp_resp.confidence)
                /\ \/ mp_resp.confidence = mapping_result.confidence
                   \/ mp_resp.confidence = ai_result.confidence
           ELSE /\ ~mp_resp.ai_fallback_used
                /\ mp_resp.confidence = mapping_result.confidence
        /\ FracLeq(mapping_result.confidence, mp_resp.confidence)
        /\ mp_resp.confidence.d > 0
        /\ 0 <= mp_resp.confidence.n
        /\ mp_resp.confidence.n <= mp_resp.confidence.d

\* the AI result was merged and its confidence, capped at 1.0, is the one
\* reported because it is above the mapping's
AIConfidenceReported ==
    /\ MappedDone /\ AIMerged
    /\ FracLess(mapping_result.confidence, ai_result.confidence)
    /\ FracEq(ai_result.confidence, FracOne)
    /\ mp_resp.confidence = ai_result.confidence

\* C9: applying the normaliser to its own result gives the same result, for
\* every field name and raw input, and no application raises.
NormalizeIdempotent ==
    norm_pc = "twice" =>
        /\ norm_once.t # "raise"
        /\ norm_twice.t # "raise"
        /\ norm_twice = norm_once

\* the lowercase-trimmed string form the comparator compares
ComparedForm(x) == Lower(Strip(StrOf(x)))

\* the number a numeric-looking value stands for
NumberOf(x) == FloatOf(RemoveChar(RemoveChar(ComparedForm(x), ","), "$"))

BothNumeric == IsNumeric(ComparedForm(value1)) /\ IsNumeric(ComparedForm(value2))

\* sim = 1 - |a - b| / max(a, b), for a, b > 0
IsOneMinusRelativeDifference(sim, a, b) ==
    IF a < b THEN sim.n * b = a * sim.d ELSE sim.n * a = b * sim.d

\* C10: two present values with the same lowercase-trimmed string form have
\* similarity 1.0; two numeric-looking values a, b > 0 have similarity
\* 1 - |a-b|/max(a,b); two differing numeric values of which one is 0 have
\* similarity 0.0.
SimilarityAsSpecified ==
    (cmp_pc = "compared" /\ value1 # None /\ value2 # None) =>
        /\ ComparedForm(value1) = ComparedForm(value2) => FracEq(similarity, FracOne)
        /\ (BothNumeric /\ NumberOf(value1) > 0 /\ NumberOf(value2) > 0)
              => IsOneMinusRelativeDifference(similarity, NumberOf(value1),
                                              NumberOf(value2))
        /\ (BothNumeric /\ NumberOf(value1) # NumberOf(value2)
              /\ (NumberOf(value1) = 0 \/ NumberOf(value2) = 0))
              => similarity.n = 0

\* C11: the similarity score of two present values does not depend on their
\* order, lies in [0,1], and for non-numeric strings is 1.0 only when the
\* two lowercase-trimmed strings are identical.
SimilaritySymmetric ==
    (cmp_pc = "compared" /\ value1 # None /\ value2 # None) =>
        /\ FracEq(similarity, CalculateFieldSimilarity(value2, value1))
        /\ similarity.d > 0
        /\ 0 <= similarity.n /\ similarity.n <= similarity.d
        /\ (~IsNumeric(ComparedForm(value1)) /\ ~IsNumeric(ComparedForm(value2))
              /\ FracEq(similarity, FracOne))
              => ComparedForm(value1) = ComparedForm(value2)

\* both values read as numbers below zero
BothNegative == BothNumeric /\ NumberOf(value1) < 0 /\ NumberOf(value2) < 0

\* the parts of C11 other than the symmetry, the range and the identity,
\* for values that are not both negative numbers
SimilarityInRangeAndExact ==
    (cmp_pc = "compared" /\ value1 # None /\ value2 # None /\ ~BothNegative) =>
        /\ similarity.d > 0
        /\ 0 <= similarity.n /\ similarity.n <= similarity.d
        /\ (~IsNumeric(ComparedForm(value1)) /\ ~IsNumeric(ComparedForm(value2))
              /\ FracEq(similarity, FracOne))
              => ComparedForm(value1) = ComparedForm(value2)

\* compare_results returned the rows of a comparison
ComparedDone == op = "compare_results" /\ pc = "done" /\ comparison_result.success

\* the field names with a value in at least one of the two extractions
HeldFields ==
    {f \in DOMAIN preview_result.extracted_data \cup DOMAIN ai_result.extracted_data :
        \/ DictGet(preview_result.extracted_data, f) # None
        \/ DictGet(ai_result.extracted_data, f) # None}

\* the row agrees with the two values of its field
RowAsSpecified(row, mapping_value, ai_value) ==
    IF mapping_value = None
    THEN row.difference_type = "missing" /\ row.similarity.n = 0 /\ ~row.match
    ELSE IF ai_value = None
    THEN /\ row.difference_type = "extra"
         /\ 2 * row.similarity.n = row.similarity.d
         /\ ~row.match
    ELSE /\ row.match <=> (10 * row.similarity.n >= 9 * row.similarity.d)
         /\ row.difference_type = (IF row.match THEN "match" ELSE "different")

\* C12: the comparison has exactly one row per field name with a value in
\* at least one extraction and none for the others; the row is (missing,
\* 0.0, no match) when only the mapping lacks the value, (extra, 0.5, no
\* match) when only the AI lacks it, and otherwise match = similarity >= 0.90
\* with category match or different.
OneRowPerHeldField ==
    ComparedDone =>
        /\ Len(comparison_result.field_comparisons) = Cardinality(HeldFields)
        /\ {comparison_result.field_comparisons[i].field_name :
               i \in 1..Len(comparison_result.field_comparisons)} = HeldFields
        /\ \A i \in 1..Len(comparison_result.field_comparisons) :
              RowAsSpecified(comparison_result.field_comparisons[i],
                  DictGet(preview_result.extracted_data,
                          comparison_result.field_comparisons[i].field_name),
                  DictGet(ai_result.extracted_data,
                          comparison_result.field_comparisons[i].field_name))

\* a comparison with a row of every category
EveryCategoryCompared ==
    /\ ComparedDone
    /\ \A category \in {"missing", "extra", "match", "different"} :
          \E i \in 1..Len(comparison_result.field_comparisons) :
              comparison_result.field_comparisons[i].difference_type = category

Suggested == suggest_pc = "suggested"

\* the deduplication keys of a list of suggestions
KeysOf(list) == {SelectorKey(list[i]) : i \in DOMAIN list}

\* the entries of the returned list that carry a key
EntriesFor(key) == SelectSeq(suggestions, LAMBDA s : SelectorKey(s) = key)

\* the keys the pattern strategy and the AI-anchored strategy both propose
ProposedByPatternAndAI ==
    KeysOf(PatternBasedSuggestions("vin", GoalFields["vin"], soup))
      \cap (IF ai_analysis # None /\ DOMAIN ai_analysis.extracted_data # {}
            THEN KeysOf(AIGuidedSuggestions("vin", soup, ai_analysis))
            ELSE {})

\* C13: a (selector, selectorType) pair proposed for a field by both the
\* pattern strategy (0.8) and the AI-anchored strategy (0.9) appears exactly
\* once in the returned list, and that entry carries 0.9.
DuplicateKeptAtHigherConfidence ==
    Suggested =>
        \A key \in ProposedByPatternAndAI :
            /\ Len(EntriesFor(key)) = 1
            /\ FracEq(EntriesFor(key)[1].confidence, Frac(9, 10))

\* what the code does with such a pair: at most one entry carries it, and
\* that entry is the pattern strategy's, at 0.8
DuplicateKeptAtFirstSeen ==
    Suggested =>
        \A key \in ProposedByPatternAndAI :
            /\ Len(EntriesFor(key)) <= 1
            /\ \A i \in DOMAIN EntriesFor(key) :
                   /\ FracEq(EntriesFor(key)[i].confidence, Frac(8, 10))
                   /\ EntriesFor(key)[i].reasoning = "pattern"

\* data[k1][k2]..., None when a part is missing or not a dict
RECURSIVE NestedGet(_, _)
NestedGet(data, key) ==
    IF key[1] \notin DOMAIN data THEN None
    ELSE IF Len(key) = 1 THEN data[key[1]]
    ELSE IF data[key[1]].t # "dict" THEN None
    ELSE NestedGet(data[key[1]].v, Tail(key))

\* the number of entries of an error list that name a field
ErrorsFor(errors, key) == Cardinality({j \in DOMAIN errors : errors[j].field = key})

\* a resolution pass of extract_from_html went through the field loop
FieldLoopRan ==
    /\ op = "parse_with_mapping"
    /\ mapping_result # None
    /\ mp_req.site_id \in DOMAIN loaded_mappings
    /\ mp_req.doc.parsable

\* a preview_mapping call returned
PreviewDone == op = "preview_mapping" /\ pc = "done"

\* C14: after a resolution pass every schema field whose selector yielded
\* nothing or threw is omitted from the extracted data and has exactly one
\* entry in the errors list, and every other field is still resolved.
FieldErrorsIsolatedAndRecorded ==
    /\ FieldLoopRan =>
           \A i \in DOMAIN loaded_mappings[mp_req.site_id] :
               LET entry == loaded_mappings[mp_req.site_id][i]
                   value == ExtractFieldValue(entry.rule, mp_req.doc)
                   recorded == ErrorsFor(mapping_result.errors, entry.key)
               IN  /\ value = None =>
                          /\ NestedGet(mapping_result.extracted_data, entry.key) = None
                          /\ recorded = 1
                   /\ (value # None /\ recorded = 0) =>
                          NestedGet(mapping_result.extracted_data, entry.key) = value
    /\ PreviewDone =>
           \A i \in DOMAIN mapping_config :
               LET key == mapping_config[i].key
               IN  ~IsPrivate(key) =>
                       /\ key \in DOMAIN preview_result.field_results
                       /\ LET field_result == preview_result.field_results[key]
                              recorded == ErrorsFor(preview_result.errors, key)
                          IN  IF field_result.success /\ field_result.value # None
                              THEN recorded = 1
                                   \/ NestedGet(preview_result.extracted_data, key)
                                          = field_result.value
                              ELSE /\ NestedGet(preview_result.extracted_data, key) = None
                                   /\ recorded = 1

\* what extract_from_html does keep of it: a field that yielded nothing is
\* omitted, and a field that yielded a value and has no error holds it
FailedFieldsOmitted ==
    FieldLoopRan =>
        \A i \in DOMAIN loaded_mappings[mp_req.site_id] :
            LET entry == loaded_mappings[mp_req.site_id][i]
                value == ExtractFieldValue(entry.rule, mp_req.doc)
            IN  /\ value = None =>
                       NestedGet(mapping_result.extracted_data, entry.key) = None
                /\ (value # None /\ ErrorsFor(mapping_result.errors, entry.key) = 0) =>
                       NestedGet(mapping_result.extracted_data, entry.key) = value

\* are all the errors of a validation in an error list
Reports(errors, validation) ==
    \A j \in DOMAIN validation.errors :
        \E k \in DOMAIN errors : errors[k] = validation.errors[j]

\* C15: for a schema that fails validation (a required key missing, or a
\* selector its engine cannot parse) extract_from_html and preview_mapping
\* resolve no field and report the validation error.
InvalidSchemaNotResolved ==
    /\ (FieldLoopRan /\ ~ValidateMapping(loaded_mappings, mp_req.site_id).valid) =>
           /\ mapping_result.fields_mapped = 0
           /\ mapping_result.extracted_data = EmptyDict
           /\ Reports(mapping_result.errors,
                      ValidateMapping(loaded_mappings, mp_req.site_id))
    /\ (PreviewDone /\ ~ValidateMappingConfig(mapping_config).valid) =>
           /\ preview_result.successful_fields = 0
           /\ preview_result.extracted_data = EmptyDict
           /\ Reports(preview_result.errors, ValidateMappingConfig(mapping_config))

\* the schema with the entries at positions i and j processed in each
\* other's place
Swapped(mapping, i, j) ==
    [k \in DOMAIN mapping |->
        IF k = i THEN mapping[j] ELSE IF k = j THEN mapping[i] ELSE mapping[k]]

\* the same MappingResult, the errors compared as a set
SameResolution(a, b) ==
    /\ a.extracted_data = b.extracted_data
    /\ a.fields_mapped = b.fields_mapped
    /\ FracEq(a.confidence, b.confidence)
    /\ {a.errors[k] : k \in DOMAIN a.errors} = {b.errors[k] : k \in DOMAIN b.errors}
    /\ a.fallback_needed = b.fallback_needed

\* C16: for a fixed schema and document the MappingResult does not depend
\* on the order in which the fields of the schema are processed: exchanging
\* any two fields gives the same result, also for a plain key k beside a
\* nested key k.x.
ResolutionOrderInsensitive ==
    FieldLoopRan =>
        \A i, j \in DOMAIN loaded_mappings[mp_req.site_id] :
            SameResolution(
                mapping_result,
                ExtractFromHtml(
                    [loaded_mappings EXCEPT ![mp_req.site_id] = Swapped(@, i, j)],
                    mp_req.doc, mp_req.site_id))

\* schemas without a plain key beside a nested key under it are resolved
\* the same in every order
NoKeyUnderPlainKey(mapping) ==
    \A i, j \in DOMAIN mapping :
        (Len(mapping[i].key) = 1 /\ Len(mapping[j].key) > 1) =>
            mapping[j].key[1] # mapping[i].key[1]

OrderInsensitiveWithoutClash ==
    (FieldLoopRan /\ NoKeyUnderPlainKey(loaded_mappings[mp_req.site_id])) =>
        \A i, j \in DOMAIN loaded_mappings[mp_req.site_id] :
            SameResolution(
                mapping_result,
                ExtractFromHtml(
                    [loaded_mappings EXCEPT ![mp_req.site_id] = Swapped(@, i, j)],
                    mp_req.doc, mp_req.site_id))

\* a goal.json was produced for the input
GoalProduced == trace # None /\ trace.final_goal # None

\* the values of the dealer object of a goal.json, none when it has no dealer
DealerValues(goal) ==
    IF "dealer" \in DOMAIN goal
    THEN {goal["dealer"].v[j] : j \in DOMAIN goal["dealer"].v}
    ELSE {}

\* C17: to_goal_json omits every absent field: no value of the output is
\* null, at the top level or inside the dealer object, and the output holds
\* at most 5 image URLs.
GoalJsonOmitsAbsentFields ==
    GoalProduced =>
        /\ \A k \in DOMAIN trace.final_goal.v : trace.final_goal.v[k] # None
        /\ None \notin DealerValues(trace.final_goal.v)
        /\ Len(trace.final_goal.v["images"].v) <= 5

\* what to_goal_json does keep of it: the top level holds no null and at
\* most 5 image URLs
GoalJsonTopLevel ==
    GoalProduced =>
        /\ \A k \in DOMAIN trace.final_goal.v : trace.final_goal.v[k] # None
        /\ Len(trace.final_goal.v["images"].v) <= 5

\* C18: the registry is written at construction only: extract_from_html,
\* validate_mapping, get_mapping_info and get_available_sites leave it as it
\* was loaded, and under every interleaving of concurrent extract_from_html
\* calls each call returns the MappingResult it returns when run alone.
RegistryImmutableCallsIsolated ==
    /\ loaded_mappings = Registry
    /\ \A c \in Callers :
           frames[c].pc = "done" =>
               frames[c].result = ExtractFromHtml(Registry, calls[c].doc, calls[c].site_id)

\* one call has returned fields while the other, on another document, is in
\* the middle of its loop, and the registry has been queried
CallReturnedDuringAnother ==
    /\ frames[1].pc = "done"
    /\ frames[1].result.fields_mapped >= 2
    /\ frames[2].pc = "loop"
    /\ frames[2].i > 1
    /\ frames[2].acc.fields_mapped >= 1
    /\ calls[1].site_id = calls[2].site_id
    /\ calls[1].doc # calls[2].doc
    /\ mapper_info # None

\* the URL pipeline ran the heuristic parser on the page
HeuristicRan ==
    /\ op = "process_input"
    /\ trace # None
    /\ trace.input_type = "url"
    /\ generic_result # None

\* the heuristic result is a success with confidence >= 0.70
HeuristicConfident ==
    /\ generic_result.success
    /\ generic_result.confidence_score # None
    /\ FracLeq(Frac(7, 10), generic_result.confidence_score)

\* the heuristic confidence is a number below 0.70
HeuristicLow ==
    /\ generic_result.confidence_score # None
    /\ FracLess(generic_result.confidence_score, Frac(7, 10))

\* C19: in the URL pipeline the AI extractor is invoked if and only if the
\* heuristic result is not a success with confidence >= 0.70; at 0.70 or
\* above the heuristic result is returned and the AI is never called; below
\* 0.70 the AI is called exactly once, with the heuristic's partial data as
\* the hint.
HeuristicEscalation ==
    HeuristicRan =>
        /\ ai_calls <= 1
        /\ pc = "done" => (ai_calls = 1 <=> ~HeuristicConfident)
        /\ HeuristicConfident =>
               /\ pc = "done"
               /\ ai_calls = 0
               /\ trace.parse_result = generic_result
        /\ (HeuristicLow /\ pc = "done") =>
               /\ ai_calls = 1
               /\ existing_data = generic_result.raw_extracted_data

\* a page rated 0.5 by the heuristics went to the AI with the vin and the
\* make it found, and one rated 0.7 or more would not
LowConfidenceEscalatedWithHint ==
    /\ HeuristicRan
    /\ pc = "done"
    /\ HeuristicLow
    /\ FracEq(generic_result.confidence_score, Frac(1, 2))
    /\ ai_calls = 1
    /\ ai_result.success
    /\ {"vin", "make"} \subseteq DOMAIN existing_data.v

\* extract_from_html was given a registered schema and a document the
\* parsing layer cannot build a tree from
UnparsableResolved ==
    /\ op = "parse_with_mapping"
    /\ mapping_result # None
    /\ mp_req.site_id \in DOMAIN loaded_mappings
    /\ ~mp_req.doc.parsable

\* C20: for a document that cannot be parsed into a tree the resolution call
\* returns, without raising, a result with an empty extracted map, zero
\* fields mapped, confidence 0, the fallback flag set and a single error that
\* describes the parse failure.
UnparsableFailsAsData ==
    /\ UnparsableResolved =>
           /\ ~mapping_result.success
           /\ mapping_result.extracted_data = EmptyDict
           /\ mapping_result.fields_mapped = 0
           /\ FracEq(mapping_result.confidence, FracZero)
           /\ mapping_result.fallback_needed
           /\ mapping_result.errors = <<FieldError(<<>>, "html_parsing")>>
    /\ (PreviewDone /\ ~html_content.parsable) =>
           /\ ~preview_result.success
           /\ preview_result.extracted_data = EmptyDict
           /\ preview_result.successful_fields = 0
           /\ FracEq(preview_result.confidence, FracZero)
           /\ preview_result.errors = <<PyStr("Preview failed")>>

\* the ten-field schema, whose static fields need no document, resolved
\* against an unparsable document
UnparsableAgainstTenFields ==
    /\ UnparsableResolved
    /\ pc = "done"
    /\ mapping_result.fields_total = 10
    /\ mp_resp.status = 200
\* the schema has the rule {"price": ".price"}
HasPriceCssRule(mapping) ==
    \E i \in 1..Len(mapping) :
        mapping[i].key = <<"price">> /\ mapping[i].rule = Sel("price")

\* the selector matches exactly one element, whose text is the dollar amount
OnePriceElement(doc) ==
    /\ doc.parsable
    /\ Select(doc.elems, "price") = <<Element("price", PriceText)>>

IsInt(data, key, n) ==
    /\ key \in DOMAIN data
    /\ data[key].t = "int"
    /\ data[key].v = n

PriceCase(mapping, doc) == HasPriceCssRule(mapping) /\ OnePriceElement(doc)

VinValidated == vin_pc = "validated"

\* a digit or a letter other than I, O and Q
VinCharacter(c) ==
    c \in {"0", "1", "2", "3", "4", "5", "6", "7", "8", "9",
           "A", "B", "C", "D", "E", "F", "G", "H", "J", "K", "L", "M", "N",
           "P", "R", "S", "T", "U", "V", "W", "X", "Y", "Z"}

\* the argument is a string that, trimmed and upper-cased, is seventeen
\* such characters
WellFormedVin(x) ==
    /\ x # None
    /\ x.t = "str"
    /\ Len(Strip(x.v)) = 17
    /\ \A i \in 1..17 : VinCharacter(UpperChar(Strip(x.v)[i]))

\* C22: is_valid_vin(v) is true if and only if v is a string that, after
\* trimming whitespace and upper-casing, consists of exactly 17 characters,
\* each a digit or a letter other than I, O and Q.
ValidIffSeventeenVinCharacters ==
    VinValidated => (is_valid <=> WellFormedVin(vin))

\* a lower-case VIN with whitespace around it was accepted
PaddedLowerCaseVinAccepted ==
    /\ VinValidated
    /\ is_valid
    /\ vin.v # Strip(vin.v)
    /\ Strip(vin.v) # Upper(Strip(vin.v))

\* VINs rejected for each of the reasons the statement lists
VinRejectedForLetter ==
    /\ VinValidated
    /\ ~is_valid
    /\ vin # None
    /\ vin.t = "str"
    /\ Len(Strip(vin.v)) = 17
    /\ \E i \in 1..17 : Strip(vin.v)[i] \in {"I", "O", "Q"}
\* the drawn text has been normalised for the drawn field
Normalized == norm_pc \in {"once", "twice"}

TypedFields == {"price", "mileage", "year"}

\* the value is the tag-stripped, whitespace-collapsed text, unchanged
IsCleanedText(x, text) ==
    /\ x # None
    /\ x.t = "str"
    /\ x.v = CleanedText(text)

\* C23: for a field that is none of price, mileage and year, the normalised
\* value is the tag-stripped, whitespace-collapsed text unchanged, whatever
\* the text contains, with either normaliser.
TypedRulesOnlyForNamedField ==
    (Normalized /\ norm_in # <<>> /\ norm_field \notin TypedFields)
        => IsCleanedText(norm_once, norm_in)

\* the same statement for StudioMapper._clean_extracted_value alone
StudioRulesOnlyForNamedField ==
    (Normalized /\ norm_in # <<>> /\ norm_field \notin TypedFields
        /\ norm_impl = "studio")
        => IsCleanedText(norm_once, norm_in)

\* GoalMapper._clean_text turned the text of an untyped field into an integer
GoalMapperParsedUntypedField ==
    /\ Normalized
    /\ norm_impl = "goal"
    /\ norm_field \notin TypedFields
    /\ norm_once.t = "int"
\* what the heuristics found on the page, as the result reports it
FoundByHeuristics(f) ==
    /\ generic_result.raw_extracted_data # None
    /\ f \in DOMAIN generic_result.raw_extracted_data.v
    /\ Truthy(generic_result.raw_extracted_data.v[f])

\* the weight of a field when it was found, in hundredths
WeightIfFound(f, hundredths) == IF FoundByHeuristics(f) THEN hundredths ELSE 0

\* vin 0.40, price 0.30, make 0.10, model 0.10, year 0.10, mileage 0.05,
\* dealer name 0.05, images 0.05
WeightFound ==
    WeightIfFound("vin", 40) + WeightIfFound("price", 30) + WeightIfFound("make", 10)
        + WeightIfFound("model", 10) + WeightIfFound("year", 10)
        + WeightIfFound("mileage", 5) + WeightIfFound("dealer_name", 5)
        + WeightIfFound("images", 5)

CoreFound == Cardinality({f \in {"vin", "price", "make"} : FoundByHeuristics(f)})

\* C24: the heuristic extractor reports success only if at least 2 of vin,
\* price and make were found and the weighted confidence, the sum of the
\* weights of the found fields capped at 1.0, is at least 0.70; otherwise it
\* reports failure, flagged as requiring AI when no exception occurred.
HeuristicUsableOnlyIfSufficient ==
    HeuristicRan =>
        /\ generic_result.success =>
               /\ CoreFound >= 2
               /\ WeightFound >= 70
               /\ generic_result.confidence_score.n * 100
                      = generic_result.confidence_score.d
                            * (IF WeightFound > 100 THEN 100 ELSE WeightFound)
        /\ (CoreFound < 2 \/ WeightFound < 70) => ~generic_result.success
        /\ (~generic_result.success /\ generic_result.raw_extracted_data # None) =>
               /\ "requires_ai" \in DOMAIN generic_result.raw_extracted_data.v
               /\ generic_result.raw_extracted_data.v["requires_ai"] = PyBool(TRUE)

\* a page with only the vin and the price, rated exactly 0.70, was usable
HeuristicUsableAtThreshold ==
    /\ HeuristicRan
    /\ generic_result.success
    /\ CoreFound = 2
    /\ WeightFound = 70

\* a page with one core field whose weights reach 0.75 was not usable
HeuristicRefusedOneCoreField ==
    /\ HeuristicRan
    /\ ~generic_result.success
    /\ CoreFound = 1
    /\ WeightFound >= 70
    /\ generic_result.raw_extracted_data.v["requires_ai"] = PyBool(TRUE)
\* the price extraction has returned
PriceExtracted == price_pc = "extracted"

\* the occurrences of the page that are price candidates in the plausible
\* range: a number with a '$' or one of the labels, from 1,000 to 200,000
InRangeCandidates ==
    {i \in 1..Len(page_text) :
        /\ page_text[i].dollar \/ page_text[i].label \in {"Price", "MSRP", "Sale"}
        /\ 1000 <= page_text[i].amount
        /\ page_text[i].amount <= 200000}

\* how often a value occurs among them, each occurrence counted once
TimesOnPage(amount) == Cardinality({i \in InRangeCandidates : page_text[i].amount = amount})

\* the returned price is no price when there is no in-range candidate, and
\* else an in-range value
PriceInRangeOrNone ==
    PriceExtracted =>
        IF InRangeCandidates = {} THEN price = None
        ELSE /\ price.t = "int"
             /\ 1000 <= price.v
             /\ price.v <= 200000
             /\ TimesOnPage(price.v) >= 1

\* C25: heuristic price extraction returns no price when the page has no
\* candidate in the range 1,000 to 200,000, and else the modal value among
\* the in-range candidates, each occurrence on the page counted once.
PriceIsModalOccurrence ==
    PriceExtracted =>
        IF InRangeCandidates = {} THEN price = None
        ELSE /\ price.t = "int"
             /\ TimesOnPage(price.v) >= 1
             /\ \A i \in InRangeCandidates :
                    TimesOnPage(page_text[i].amount) <= TimesOnPage(price.v)
\* compare_results has returned
ReconcileReturned == op = "compare_results" /\ pc = "done"

\* vin 3.0, price 2.5, year/make/model 2.0, mileage 1.5, every other field
\* 1.0, in tenths
ImportanceTenths(field_name) ==
    CASE field_name = "vin" -> 30
      [] field_name = "price" -> 25
      [] field_name \in {"year", "make", "model"} -> 20
      [] field_name = "mileage" -> 15
      [] OTHER -> 10

\* the sum over the rows of importance times similarity, as a fraction
RECURSIVE ImportanceTimesSimilarity(_)
ImportanceTimesSimilarity(rows) ==
    IF rows = <<>> THEN Frac(0, 1)
    ELSE LET rest == ImportanceTimesSimilarity(Tail(rows))
             row == Head(rows)
         IN  Reduced(ImportanceTenths(row.field_name) * row.similarity.n * rest.d
                         + rest.n * row.similarity.d,
                     row.similarity.d * rest.d)

RECURSIVE ImportanceTotal(_)
ImportanceTotal(rows) ==
    IF rows = <<>> THEN 0
    ELSE ImportanceTenths(Head(rows).field_name) + ImportanceTotal(Tail(rows))

\* overall = sum / total
IsQuotient(overall, sum, total) ==
    Reduced(overall.n, overall.d) = Reduced(sum.n, sum.d * total)

\* the aggregate is the importance-weighted average of the rows, and 0
\* without rows
OverallIsWeightedAverage ==
    ReconcileReturned =>
        IF comparison_result.field_comparisons = <<>>
        THEN comparison_result.overall_similarity.n = 0
        ELSE IsQuotient(comparison_result.overall_similarity,
                        ImportanceTimesSimilarity(comparison_result.field_comparisons),
                        ImportanceTotal(comparison_result.field_comparisons))

\* C26: the aggregate similarity is the importance-weighted average of the
\* per-row similarities (vin 3.0, price 2.5, year/make/model 2.0, mileage
\* 1.5, every other field 1.0), is 0 when there are no compared fields, and
\* always lies in [0,1].
OverallIsWeightedAverageInUnitRange ==
    /\ OverallIsWeightedAverage
    /\ ReconcileReturned =>
           /\ comparison_result.overall_similarity.d > 0
           /\ 0 <= comparison_result.overall_similarity.n
           /\ comparison_result.overall_similarity.n
                  <= comparison_result.overall_similarity.d

\* rows of three different weights were averaged
ThreeWeightsAveraged ==
    /\ ReconcileReturned
    /\ comparison_result.success
    /\ {"vin", "mileage", "color"}
           \subseteq {comparison_result.field_comparisons[i].field_name :
                         i \in 1..Len(comparison_result.field_comparisons)}
\* the candidates of the field after the removal of duplicates, before the
\* ranking and the truncation
UniqueCandidates ==
    UniqueSuggestions(CollectSuggestions("vin", GoalFields["vin"], soup, ai_analysis), {})

\* the (selector, selectorType) pair of a suggestion
PairOf(suggestion) == <<suggestion.selector, suggestion.selector_type>>

\* the candidate was dropped by the truncation: its pair is not in the
\* returned list
DroppedByTruncation(candidate) ==
    \A j \in DOMAIN suggestions : PairOf(suggestions[j]) # PairOf(candidate)

\* no dropped candidate is strictly more confident than a retained one
NoBetterDropped(candidates) ==
    \A k \in DOMAIN candidates :
        DroppedByTruncation(candidates[k]) =>
            \A j \in DOMAIN suggestions :
                FracLeq(candidates[k].confidence, suggestions[j].confidence)

\* 0.6, 0.7, 0.8 or 0.9
StrategyConfidence(confidence) ==
    \E tenths \in {6, 7, 8, 9} : confidence.n * 10 = tenths * confidence.d

\* C27: the list returned for a field has at most 3 entries, no two entries
\* share the same (selector, selectorType) pair, the entries are in
\* non-increasing confidence order, no suggestion dropped by the truncation
\* is strictly more confident than a retained one, and every confidence is
\* 0.6, 0.7, 0.8 or 0.9.
TopThreeDistinctRanked ==
    Suggested =>
        /\ Len(suggestions) <= 3
        /\ \A i, j \in DOMAIN suggestions :
               i # j => PairOf(suggestions[i]) # PairOf(suggestions[j])
        /\ \A i \in 1..(Len(suggestions) - 1) :
               FracLeq(suggestions[i + 1].confidence, suggestions[i].confidence)
        /\ NoBetterDropped(UniqueCandidates)
        /\ \A i \in DOMAIN suggestions : StrategyConfidence(suggestions[i].confidence)

\* four distinct candidates of three different confidences were cut to three
FourCandidatesCutToThree ==
    /\ Suggested
    /\ Len(suggestions) = 3
    /\ Len(UniqueCandidates) = 4
    /\ FracLess(suggestions[3].confidence, suggestions[1].confidence)
    /\ \E k \in DOMAIN UniqueCandidates :
           /\ DroppedByTruncation(UniqueCandidates[k])
           /\ FracLess(UniqueCandidates[k].confidence, suggestions[3].confidence)

(***************************************************************************)
(* The schema test run                                                     *)
(***************************************************************************)
TestRan == test_pc = "done" /\ test_response # SchemaNotFound

\* min(n, 5) for the n URLs of the request
ProbeCount == IF Len(test_urls) < 5 THEN Len(test_urls) ELSE 5

SuccessfulEntries ==
    Cardinality({i \in DOMAIN test_response.test_results :
                     test_response.test_results[i].success})

\* C28: a schema test run fetches only the first five URLs of the request;
\* a fetch that fails or raises is recorded as the failed result of its URL
\* and the run goes on: each of the first min(n, 5) URLs has exactly one
\* result entry, in input order, total_tests is min(n, 5) and success_rate
\* is the number of successful entries over total_tests, 0 without URLs.
EveryProbedUrlRecorded ==
    /\ Len(fetches) <= 5
    /\ \A i \in DOMAIN fetches : fetches[i].url = test_urls[i]
    /\ TestRan =>
           /\ Len(fetches) = ProbeCount
           /\ Len(test_response.test_results) = ProbeCount
           /\ \A i \in 1..ProbeCount :
                  /\ test_response.test_results[i].url = test_urls[i]
                  /\ fetches[i].kind \in {"raises", "failed"} =>
                         ~test_response.test_results[i].success
           /\ test_response.total_tests = ProbeCount
           /\ IF ProbeCount = 0
              THEN test_response.success_rate.n = 0
              ELSE FracEq(test_response.success_rate,
                          Frac(SuccessfulEntries, ProbeCount))

\* six URLs were given; the first fetch raised, the second failed, the fifth
\* page was mapped, and the run reported one success in five tests
SixUrlsFiveProbedDespiteFailures ==
    /\ TestRan
    /\ Len(test_urls) = 6
    /\ fetches[1].kind = "raises"
    /\ fetches[2].kind = "failed"
    /\ test_response.test_results[5].success
    /\ test_response.total_tests = 5
    /\ test_response.success_rate.n = 1
    /\ test_response.success_rate.d = 5

\* a run without URLs reports a rate of 0 over 0 tests
NoUrlsZeroRate ==
    (TestRan /\ test_urls = <<>>) =>
        test_response.total_tests = 0 /\ test_response.success_rate = FracZero

(***************************************************************************)
(* The loop over the search results and the case creation                  *)
(***************************************************************************)
VinRun == op = "process_input" /\ trace.input_type = "vin"

NoSuccessYet ==
    /\ trace.parse_result = None \/ ~trace.parse_result.success
    /\ trace.final_goal = None

\* C29: for a VIN input the search results are handed to _fetch_and_parse in
\* the order of the search, each at most once; a result is fetched only
\* while none has succeeded, so the first success ends the loop; at the end
\* selected_url is the last result attempted, and when no result succeeded,
\* or the search returned nothing or raised, parse_result is a failure and
\* final_goal is unset.
CandidatesInOrderUntilSuccess ==
    VinRun =>
        /\ attempts = [i \in 1..Len(attempts) |-> i]
        /\ Len(attempts) <= trace.search_results
        /\ pc = "fetch" => NoSuccessYet
        /\ pc = "done" =>
               /\ attempts # <<>> =>
                      trace.selected_url = PyInt(attempts[Len(attempts)])
               /\ trace.parse_result # None
               /\ trace.parse_result.success => attempts # <<>>
               /\ ~trace.parse_result.success =>
                      /\ Len(attempts) = trace.search_results
                      /\ trace.final_goal = None

\* the first of two search results succeeded and the second was not fetched
FirstOfTwoCandidatesSucceeded ==
    /\ VinRun
    /\ pc = "done"
    /\ trace.search_results = 2
    /\ attempts = <<1>>
    /\ trace.parse_result.success
    /\ trace.selected_url = PyInt(1)

\* the first result failed and the second one succeeded
SecondCandidateSucceeded ==
    /\ VinRun
    /\ pc = "done"
    /\ attempts = <<1, 2>>
    /\ trace.parse_result.success
    /\ trace.selected_url = PyInt(2)

\* both results failed
BothCandidatesFailed ==
    /\ VinRun
    /\ pc = "done"
    /\ attempts = <<1, 2>>
    /\ ~trace.parse_result.success

InputProcessed == op = "process_input" /\ pc = "done"

\* C30: the trace process_input returns has final_goal set exactly when
\* parse_result.success is true, the goal being the serialized vehicle data
\* of the parse result; process_and_create_case calls create_case at most
\* once and only with a goal, and without a goal the case creation outcome
\* is the error value and create_case is not called.
GoalIffSuccessAndOneSubmit ==
    /\ submits <= 1
    /\ case_creation # None => InputProcessed
    /\ InputProcessed =>
           /\ trace.parse_result # None
           /\ trace.final_goal # None <=> trace.parse_result.success
           /\ trace.parse_result.success =>
                  /\ trace.parse_result.vehicle_data # None
                  /\ trace.final_goal =
                         PyDict(ToGoalJson(trace.parse_result.vehicle_data))
           /\ submits = 1 => trace.final_goal # None /\ case_creation # None
           /\ (case_creation # None /\ trace.final_goal = None) =>
                  submits = 0 /\ case_creation = NoGoalData
           /\ (case_creation # None /\ trace.final_goal # None) => submits = 1

\* a goal was built and submitted once, and the API accepted it
GoalSubmittedOnce ==
    /\ InputProcessed
    /\ trace.parse_result.success
    /\ submits = 1
    /\ case_creation.success

\* no goal was built: the error value, and no call of create_case
NoGoalNoSubmit ==
    /\ InputProcessed
    /\ ~trace.parse_result.success
    /\ case_creation = NoGoalData
    /\ submits = 0

====
